---------------------------- MODULE Spec2Model ----------------------------
(***************************************************************************)
(* A model of the grammar analysis engine (GrammarAnalyzer) of the ANTLR4  *)
(* IDE: the text-level rule extraction, the reference graph, the four      *)
(* diagnostics, the summary, and the result cache with its TTL and its     *)
(* insertion-order eviction.                                               *)
(*                                                                         *)
(* Strings are TLA+ strings; TLC implements Len, SubSeq and \o on them, so *)
(* the scanners below read the text character by character as the code     *)
(* does.  Positions are 1-based here and 0-based in the source.            *)
(***************************************************************************)
EXTENDS Integers, Sequences, FiniteSets, TLC

(***************************************************************************)
(* Characters and strings                                                  *)
(***************************************************************************)

\* s[i] of the source, for the 1-based position i; "" stands for undefined
\* (a read before the first or after the last character).
At(s, i) ==
    IF i >= 1 /\ i <= Len(s) THEN SubSeq(s, i, i) ELSE ""

\* s.substring(i) for the 1-based position i.
From(s, i) ==
    SubSeq(s, i, Len(s))

UpperChars == "ABCDEFGHIJKLMNOPQRSTUVWXYZ"

LowerChars == "abcdefghijklmnopqrstuvwxyz"

DigitChars == "0123456789"

CharsOf(s) ==
    { SubSeq(s, i, i) : i \in 1..Len(s) }

UpperSet == CharsOf(UpperChars)

LowerSet == CharsOf(LowerChars)

DigitSet == CharsOf(DigitChars)

\* [a-zA-Z_]
IdentStart == UpperSet \cup LowerSet \cup {"_"}

\* [a-zA-Z0-9_]   (also \w)
IdentChar == IdentStart \cup DigitSet

\* \s of a JavaScript regular expression and the characters trim() removes,
\* restricted to the ASCII ones.
WhiteSpace == {" ", "\t", "\n", "\r", "\f"}

\* String.prototype.toLowerCase on one ASCII character.
LowerOfChar ==
    [c \in UpperSet |->
        LET i == CHOOSE k \in 1..Len(UpperChars) : SubSeq(UpperChars, k, k) = c
        IN  SubSeq(LowerChars, i, i)]

\* A for-loop over the characters i..j of s: Step(st, s, k) is the loop body,
\* st the loop's variables.  (TLC evaluates an operator's arguments when they
\* are first used; the test on nst makes it evaluate each iteration's state
\* before it starts the next one.)
RECURSIVE FoldRange(_, _, _, _, _)
FoldRange(Step(_, _, _), st, s, i, j) ==
    IF i > j THEN st
    ELSE LET nst == Step(st, s, i)
         IN  IF nst = nst THEN FoldRange(Step, nst, s, i + 1, j) ELSE nst

\* The same loop over the characters i..Len(s), run in stretches of 24
\* characters so that the depth of the evaluation stays small on long texts.
RECURSIVE FoldFrom(_, _, _, _)
FoldFrom(Step(_, _, _), st, s, i) ==
    IF i > Len(s) THEN st
    ELSE LET j == IF i + 23 < Len(s) THEN i + 23 ELSE Len(s)
             nst == FoldRange(Step, st, s, i, j)
         IN  IF nst = nst THEN FoldFrom(Step, nst, s, j + 1) ELSE nst

Fold(Step(_, _, _), st, s) ==
    FoldFrom(Step, st, s, 1)

ToLowerStep(acc, s, i) ==
    acc \o (IF At(s, i) \in UpperSet THEN LowerOfChar[At(s, i)] ELSE At(s, i))

toLowerCase(s) ==
    Fold(ToLowerStep, "", s)

\* The first position >= i at which s does not hold a character of set cs
\* (Len(s) + 1 when the run reaches the end): a greedy cs*.
SkipSet(s, i, cs) ==
    IF i > Len(s) THEN i
    ELSE CHOOSE j \in i..(Len(s) + 1) :
             /\ j = Len(s) + 1 \/ At(s, j) \notin cs
             /\ \A k \in i..(j - 1) : At(s, k) \in cs

\* The first position >= i at which s holds a character of set cs, or 0.
FindSet(s, i, cs) ==
    IF \E j \in i..Len(s) : At(s, j) \in cs
    THEN CHOOSE j \in i..Len(s) :
             /\ At(s, j) \in cs
             /\ \A k \in i..(j - 1) : At(s, k) \notin cs
    ELSE 0

\* Whether the literal lit stands in s at position i.
LitAt(s, i, lit) ==
    /\ i >= 1
    /\ i + Len(lit) - 1 <= Len(s)
    /\ SubSeq(s, i, i + Len(lit) - 1) = lit

\* s.indexOf(lit, i) for 1-based positions: the first position >= i where
\* lit stands, or 0.
IndexOf(s, lit, i) ==
    IF \E j \in i..Len(s) : LitAt(s, j, lit)
    THEN CHOOSE j \in i..Len(s) :
             /\ LitAt(s, j, lit)
             /\ \A k \in i..(j - 1) : ~LitAt(s, k, lit)
    ELSE 0

\* The last position of s that holds no white space, or 0.
LastNonSpace(s) ==
    IF \E j \in 1..Len(s) : At(s, j) \notin WhiteSpace
    THEN CHOOSE j \in 1..Len(s) :
             /\ At(s, j) \notin WhiteSpace
             /\ \A k \in (j + 1)..Len(s) : At(s, k) \in WhiteSpace
    ELSE 0

\* String.prototype.trim
trim(s) ==
    SubSeq(s, SkipSet(s, 1, WhiteSpace), LastNonSpace(s))

\* Array.prototype.includes / Set.prototype.has on a sequence.
Has(seq, x) ==
    \E i \in 1..Len(seq) : seq[i] = x

\* Set.prototype.add on an insertion-ordered set kept as a sequence.
SetAdd(seq, x) ==
    IF Has(seq, x) THEN seq ELSE Append(seq, x)

Range(seq) ==
    { seq[i] : i \in 1..Len(seq) }

(***************************************************************************)
(* Regular expressions.  Each pattern of the source is an operator         *)
(* M(s, i) giving the position just after the match that starts at         *)
(* position i, or 0 when the pattern does not match there.  None of the    *)
(* patterns matches the empty string.                                      *)
(***************************************************************************)

\* regex.exec with the g flag: the leftmost position >= i where M matches, or 0.
NextMatch(M(_, _), s, i) ==
    IF \E j \in i..Len(s) : M(s, j) # 0
    THEN CHOOSE j \in i..Len(s) :
             /\ M(s, j) # 0
             /\ \A k \in i..(j - 1) : M(s, k) = 0
    ELSE 0

\* s.replace(/M/g, ''), scanning from position i with acc already copied:
\* the matches are taken leftmost first and do not overlap.
RECURSIVE RemoveAllFrom(_, _, _, _)
RemoveAllFrom(M(_, _), s, i, acc) ==
    LET j == NextMatch(M, s, i)
    IN  IF j = 0 THEN acc \o From(s, i)
        ELSE RemoveAllFrom(M, s, M(s, j), acc \o SubSeq(s, i, j - 1))

RemoveAll(M(_, _), s) ==
    RemoveAllFrom(M, s, 1, "")

\* /\/\/[^\n]*/
LineCommentEnd(s, i) ==
    IF ~LitAt(s, i, "//") THEN 0
    ELSE LET j == FindSet(s, i + 2, {"\n"})
         IN  IF j = 0 THEN Len(s) + 1 ELSE j

\* /\/\*[\s\S]*?\*\//
BlockCommentEnd(s, i) ==
    IF ~LitAt(s, i, "/*") THEN 0
    ELSE LET j == IndexOf(s, "*/", i + 2)
         IN  IF j = 0 THEN 0 ELSE j + 2

removeComments(content) ==
    RemoveAll(BlockCommentEnd, RemoveAll(LineCommentEnd, content))

\* \s+[a-zA-Z_][a-zA-Z0-9_]*\s*;  from position k
NameSemiEnd(s, k) ==
    LET p == SkipSet(s, k, WhiteSpace)
        q == SkipSet(s, p + 1, IdentChar)
        r == SkipSet(s, q, WhiteSpace)
    IN  IF p > k /\ At(s, p) \in IdentStart /\ At(s, r) = ";" THEN r + 1 ELSE 0

\* word\s+grammar  from position i: the position after it, or 0
TwoWordEnd(s, i, word) ==
    LET k == i + Len(word)
        p == SkipSet(s, k, WhiteSpace)
    IN  IF LitAt(s, i, word) /\ p > k /\ LitAt(s, p, "grammar") THEN p + 7 ELSE 0

\* /(grammar|lexer\s+grammar|parser\s+grammar)\s+[a-zA-Z_][a-zA-Z0-9_]*\s*;/
GrammarDeclEnd(s, i) ==
    IF LitAt(s, i, "grammar") THEN NameSemiEnd(s, i + 7)
    ELSE IF TwoWordEnd(s, i, "lexer") # 0 THEN NameSemiEnd(s, TwoWordEnd(s, i, "lexer"))
    ELSE IF TwoWordEnd(s, i, "parser") # 0 THEN NameSemiEnd(s, TwoWordEnd(s, i, "parser"))
    ELSE 0

\* /options\s*\{/ , /tokens\s*\{/ , /channels\s*\{/  for the given word
BlockStartEnd(s, i, word) ==
    LET p == SkipSet(s, i + Len(word), WhiteSpace)
    IN  IF LitAt(s, i, word) /\ At(s, p) = "{" THEN p + 1 ELSE 0

NextBlockStart(s, word, i) ==
    IF \E j \in i..Len(s) : BlockStartEnd(s, j, word) # 0
    THEN CHOOSE j \in i..Len(s) :
             /\ BlockStartEnd(s, j, word) # 0
             /\ \A k \in i..(j - 1) : BlockStartEnd(s, k, word) = 0
    ELSE 0

\* The body of the brace-counting loop of removeBlock; the loop's condition
\* (braceCount > 0) is the guard, endIdx the position after the last
\* character it consumed.
BraceStep(st, s, i) ==
    IF st.braceCount > 0
    THEN [braceCount |-> IF At(s, i) = "{" THEN st.braceCount + 1
                          ELSE IF At(s, i) = "}" THEN st.braceCount - 1
                          ELSE st.braceCount,
          endIdx |-> i + 1]
    ELSE st

ScanBraces(s, endIdx, braceCount) ==
    FoldFrom(BraceStep, [braceCount |-> braceCount, endIdx |-> endIdx], s, endIdx).endIdx

RECURSIVE removeBlock(_, _)
removeBlock(content, word) ==
    LET startIdx == NextBlockStart(content, word, 1)
    IN  IF startIdx = 0 THEN content
        ELSE LET endIdx == ScanBraces(content, BlockStartEnd(content, startIdx, word), 1)
             IN  removeBlock(SubSeq(content, 1, startIdx - 1) \o From(content, endIdx), word)

\* /@[a-zA-Z_][a-zA-Z0-9_:]*\s*\{[^}]*\}/
AtBlockEnd(s, i) ==
    LET q == SkipSet(s, i + 2, IdentChar \cup {":"})
        r == SkipSet(s, q, WhiteSpace)
        e == FindSet(s, r + 1, {"}"})
    IN  IF At(s, i) = "@" /\ At(s, i + 1) \in IdentStart /\ At(s, r) = "{" /\ e # 0
        THEN e + 1 ELSE 0

\* /import\s+[^;]+;/
ImportEnd(s, i) ==
    LET e == FindSet(s, i + 7, {";"})
    IN  IF LitAt(s, i, "import") /\ At(s, i + 6) \in WhiteSpace /\ e >= i + 8
        THEN e + 1 ELSE 0

\* /^mode\s+[a-zA-Z_][a-zA-Z0-9_]*\s*;/m
ModeDeclEnd(s, i) ==
    IF (i = 1 \/ At(s, i - 1) \in {"\n", "\r"}) /\ LitAt(s, i, "mode")
    THEN NameSemiEnd(s, i + 4) ELSE 0

removeHeaderBlocks(content) ==
    LET r1 == RemoveAll(GrammarDeclEnd, content)
        r2 == removeBlock(r1, "options")
        r3 == removeBlock(r2, "tokens")
        r4 == RemoveAll(AtBlockEnd, r3)
        r5 == RemoveAll(ImportEnd, r4)
        r6 == removeBlock(r5, "channels")
    IN  RemoveAll(ModeDeclEnd, r6)

(***************************************************************************)
(* Rule extraction (parseGrammar).  A RuleInfo is a record with the fields *)
(* name, type, text, alternativeCount, references and referencedBy; the    *)
(* position fields (line, column, endLine, endColumn) are not modelled.    *)
(***************************************************************************)

\* The body of the character loop of countAlternatives.
CountAltStep(st, s, i) ==
    LET char == At(s, i)
        prevChar == At(s, i - 1)
    IN  IF (char = "\"" \/ char = "'") /\ prevChar # "\\"
        THEN IF ~st.inString THEN [st EXCEPT !.inString = TRUE, !.stringChar = char]
             ELSE IF char = st.stringChar THEN [st EXCEPT !.inString = FALSE]
             ELSE st
        ELSE IF st.inString THEN st
        ELSE LET d == IF char = "(" THEN st.depth + 1
                      ELSE IF char = ")" THEN st.depth - 1
                      ELSE st.depth
             IN  [st EXCEPT !.depth = d,
                            !.count = IF char = "|" /\ d = 0 THEN @ + 1 ELSE @]

countAlternatives(ruleText) ==
    Fold(CountAltStep,
         [count |-> 1, depth |-> 0, inString |-> FALSE, stringChar |-> ""],
         ruleText).count

keywords ==
    {"fragment", "grammar", "lexer", "parser", "options", "tokens", "channels",
     "import", "mode", "returns", "locals", "throws", "catch", "finally", "true",
     "false", "null", "skip", "channel", "type", "more", "popMode", "pushMode",
     "EOF"}

isKeyword(name) ==
    name \in keywords

\* A match of one of the three rule patterns: end is the position after the
\* match (the regex's lastIndex), 0 when there is none.
NoMatch == [end |-> 0, name |-> "", body |-> ""]

\* ([A-Z][a-zA-Z0-9_]*)\s*:([\s\S]*?);  or the same with [a-z], from position
\* p, first being the set the name's first character is taken from.
RuleTail(s, p, first) ==
    LET q == SkipSet(s, p + 1, IdentChar)
        r == SkipSet(s, q, WhiteSpace)
        e == FindSet(s, r + 1, {";"})
    IN  IF At(s, p) \in first /\ At(s, r) = ":" /\ e # 0
        THEN [end |-> e + 1, name |-> SubSeq(s, p, q - 1), body |-> SubSeq(s, r + 1, e - 1)]
        ELSE NoMatch

\* /fragment\s+([A-Z][a-zA-Z0-9_]*)\s*:([\s\S]*?);/g
fragmentPattern(s, i) ==
    LET p == SkipSet(s, i + 8, WhiteSpace)
    IN  IF LitAt(s, i, "fragment") /\ p > i + 8 THEN RuleTail(s, p, UpperSet) ELSE NoMatch

\* /(?:^|\n)\s*(NAME)\s*:([\s\S]*?);/g
LineRulePattern(s, i, first) ==
    IF i = 1 THEN RuleTail(s, SkipSet(s, 1, WhiteSpace), first)
    ELSE IF At(s, i) = "\n" THEN RuleTail(s, SkipSet(s, i + 1, WhiteSpace), first)
    ELSE NoMatch

lexerRulePattern(s, i) ==
    LineRulePattern(s, i, UpperSet)

parserRulePattern(s, i) ==
    LineRulePattern(s, i, LowerSet)

fragmentEnd(s, i) == fragmentPattern(s, i).end

lexerRuleEnd(s, i) == lexerRulePattern(s, i).end

parserRuleEnd(s, i) == parserRulePattern(s, i).end

\* new RegExp(`fragment\\s+${ruleName}\\s*:`).test(content)
fragCheck(content, ruleName) ==
    \E i \in 1..Len(content) :
        LET p == SkipSet(content, i + 8, WhiteSpace)
        IN  /\ LitAt(content, i, "fragment")
            /\ p > i + 8
            /\ LitAt(content, p, ruleName)
            /\ At(content, SkipSet(content, p + Len(ruleName), WhiteSpace)) = ":"

\* The object pushed onto rules.
NewRule(ruleName, type, ruleText) ==
    [name |-> ruleName,
     type |-> type,
     text |-> trim(ruleText),
     alternativeCount |-> countAlternatives(ruleText),
     references |-> <<>>,
     referencedBy |-> <<>>]

\* The three while-loops over regex.exec; st holds rules and processedRules,
\* lastIndex is the regex's position.
RECURSIVE FragmentLoop(_, _, _)
FragmentLoop(s, lastIndex, st) ==
    LET j == NextMatch(fragmentEnd, s, lastIndex)
        m == fragmentPattern(s, j)
    IN  IF j = 0 THEN st
        ELSE IF m.name \in st.processedRules THEN FragmentLoop(s, m.end, st)
        ELSE FragmentLoop(s, m.end,
                 [rules |-> Append(st.rules,
                        NewRule(m.name, "fragment",
                                "fragment " \o m.name \o " :" \o m.body \o ";")),
                  processedRules |-> st.processedRules \cup {m.name}])

\* A lexer loop that passes over no match.
SkipLexerRuleNever(content, ruleName, processedRules, fragmentNames) ==
    FALSE

\* The two tests of the lexer loop that make it pass over a match: the name
\* was processed or is a fragment's, or fragCheck finds it declared as a
\* fragment in the original content.
SkipLexerRule(content, ruleName, processedRules, fragmentNames) ==
    \/ ruleName \in processedRules \/ ruleName \in fragmentNames
    \/ fragCheck(content, ruleName)

RECURSIVE LexerLoop(_, _, _, _, _)
LexerLoop(content, s, lastIndex, fragmentNames, st) ==
    LET j == NextMatch(lexerRuleEnd, s, lastIndex)
        m == lexerRulePattern(s, j)
    IN  IF j = 0 THEN st
        ELSE IF SkipLexerRule(content, m.name, st.processedRules, fragmentNames)
        THEN LexerLoop(content, s, m.end, fragmentNames, st)
        ELSE LexerLoop(content, s, m.end, fragmentNames,
                 [rules |-> Append(st.rules,
                        NewRule(m.name, "lexer", m.name \o " :" \o m.body \o ";")),
                  processedRules |-> st.processedRules \cup {m.name}])

RECURSIVE ParserLoop(_, _, _)
ParserLoop(s, lastIndex, st) ==
    LET j == NextMatch(parserRuleEnd, s, lastIndex)
        m == parserRulePattern(s, j)
    IN  IF j = 0 THEN st
        ELSE IF m.name \in st.processedRules THEN ParserLoop(s, m.end, st)
        ELSE IF isKeyword(m.name) THEN ParserLoop(s, m.end, st)
        ELSE ParserLoop(s, m.end,
                 [rules |-> Append(st.rules,
                        NewRule(m.name, "parser", m.name \o " :" \o m.body \o ";")),
                  processedRules |-> st.processedRules \cup {m.name}])

parseGrammar(content) ==
    LET cleanedContent == removeComments(content)
        contentWithoutHeaders == removeHeaderBlocks(cleanedContent)
        afterFragments ==
            FragmentLoop(contentWithoutHeaders, 1, [rules |-> <<>>, processedRules |-> {}])
        fragmentNames ==
            { afterFragments.rules[k].name : k \in 1..Len(afterFragments.rules) }
        afterLexer ==
            LexerLoop(content, contentWithoutHeaders, 1, fragmentNames, afterFragments)
    IN  ParserLoop(contentWithoutHeaders, 1, afterLexer).rules

(***************************************************************************)
(* References and the reference graph.  A JavaScript Set is a sequence     *)
(* without repetitions, in insertion order; the graph (a Map from rule     *)
(* names to nodes, read only through get) is a function on the names.      *)
(***************************************************************************)

\* /'[^']*'|"[^"]*"/
StringLitEnd(s, i) ==
    IF At(s, i) = "'" /\ FindSet(s, i + 1, {"'"}) # 0 THEN FindSet(s, i + 1, {"'"}) + 1
    ELSE IF At(s, i) = "\"" /\ FindSet(s, i + 1, {"\""}) # 0 THEN FindSet(s, i + 1, {"\""}) + 1
    ELSE 0

\* The body of the character loop of removeActionBlocks.
ActionStep(st, s, i) ==
    LET char == At(s, i)
    IN  IF char = "{" THEN [st EXCEPT !.braceDepth = @ + 1]
        ELSE IF char = "}" THEN [st EXCEPT !.braceDepth = @ - 1]
        ELSE IF st.braceDepth = 0 THEN [st EXCEPT !.result = @ \o char]
        ELSE st

removeActionBlocks(text) ==
    Fold(ActionStep, [result |-> "", braceDepth |-> 0], text).result

\* /\b([a-zA-Z_][a-zA-Z0-9_]*)\b/ : a whole word that starts with a letter or
\* an underscore.
identifierPattern(s, i) ==
    IF At(s, i) \in IdentStart /\ At(s, i - 1) \notin IdentChar
    THEN SkipSet(s, i + 1, IdentChar)
    ELSE 0

\* The while-loop over identifierPattern.exec; a name never starts with '$',
\* so that test of the source never succeeds.
RECURSIVE IdentifierLoop(_, _, _)
IdentifierLoop(s, lastIndex, references) ==
    LET j == NextMatch(identifierPattern, s, lastIndex)
        e == identifierPattern(s, j)
        name == SubSeq(s, j, e - 1)
    IN  IF j = 0 THEN references
        ELSE IF isKeyword(name) THEN IdentifierLoop(s, e, references)
        ELSE IdentifierLoop(s, e, SetAdd(references, name))

extractReferences(ruleText) ==
    LET colonIndex == IndexOf(ruleText, ":", 1)
        body == From(ruleText, colonIndex + 1)
        withoutStrings == RemoveAll(StringLitEnd, body)
        withoutComments == RemoveAll(BlockCommentEnd, RemoveAll(LineCommentEnd, withoutStrings))
        withoutActions == removeActionBlocks(withoutComments)
    IN  IF colonIndex = 0 THEN <<>>
        ELSE IdentifierLoop(withoutActions, 1, <<>>)

\* Map.prototype.set
MapSet(map, key, value) ==
    [k \in DOMAIN map \cup {key} |-> IF k = key THEN value ELSE map[k]]

\* "Initialize nodes"
RECURSIVE InitNodes(_, _, _)
InitNodes(rules, k, graph) ==
    IF k > Len(rules) THEN graph
    ELSE InitNodes(rules, k + 1,
             MapSet(graph, rules[k].name,
                    [name |-> rules[k].name, type |-> rules[k].type,
                     references |-> <<>>, referencedBy |-> <<>>]))

\* "Build references" with a node made for a referenced name that has none.
RECURSIVE AddRefsMakingNodes(_, _, _, _)
AddRefsMakingNodes(graph, ruleName, refs, k) ==
    IF k > Len(refs) THEN graph
    ELSE LET ref == refs[k]
             g1 == [graph EXCEPT ![ruleName].references = SetAdd(@, ref)]
             g2 == IF ref \in DOMAIN g1
                   THEN [g1 EXCEPT ![ref].referencedBy = SetAdd(@, ruleName)]
                   ELSE MapSet(g1, ref,
                            [name |-> ref, type |-> "parser",
                             references |-> <<>>, referencedBy |-> <<ruleName>>])
         IN  AddRefsMakingNodes(g2, ruleName, refs, k + 1)

\* The inner loop of "Build references": the references refs[k..] of the rule
\* named ruleName.
RECURSIVE AddRefs(_, _, _, _)
AddRefs(graph, ruleName, refs, k) ==
    IF k > Len(refs) THEN graph
    ELSE LET ref == refs[k]
             g1 == [graph EXCEPT ![ruleName].references = SetAdd(@, ref)]
             g2 == IF ref \in DOMAIN g1
                   THEN [g1 EXCEPT ![ref].referencedBy = SetAdd(@, ruleName)]
                   ELSE g1
         IN  AddRefs(g2, ruleName, refs, k + 1)

RECURSIVE BuildRefs(_, _, _)
BuildRefs(rules, k, graph) ==
    IF k > Len(rules) THEN graph
    ELSE BuildRefs(rules, k + 1,
             AddRefs(graph, rules[k].name, extractReferences(rules[k].text), 1))

buildReferenceGraph(rules) ==
    BuildRefs(rules, 1, InitNodes(rules, 1, <<>>))

updateRuleReferences(rules, graph) ==
    [k \in 1..Len(rules) |->
        IF rules[k].name \in DOMAIN graph
        THEN [rules[k] EXCEPT !.references = graph[rules[k].name].references,
                              !.referencedBy = graph[rules[k].name].referencedBy]
        ELSE rules[k]]

(***************************************************************************)
(* Unused rules                                                            *)
(***************************************************************************)

\* rules.find((r) => r.type === 'parser'): its index, or 0.
FirstParserIndex(rules) ==
    IF \E k \in 1..Len(rules) : rules[k].type = "parser"
    THEN CHOOSE k \in 1..Len(rules) :
             /\ rules[k].type = "parser"
             /\ \A j \in 1..(k - 1) : rules[j].type # "parser"
    ELSE 0

\* detectUnusedRules with the first parser rule left out whether or not a
\* start rule is given.
IsReportedUnusedFirstExempt(rule, rules, graph, startRule) ==
    /\ rule.name \in DOMAIN graph
    /\ ~(rule.name = startRule \/ toLowerCase(rule.name) = toLowerCase(startRule))
    /\ ~(Len(graph[rule.name].referencedBy) > 0)
    /\ ~(/\ rule.type = "parser"
         /\ FirstParserIndex(rules) # 0
         /\ rules[FirstParserIndex(rules)].name = rule.name)

\* Whether the loop of detectUnusedRules pushes the rule.
IsReportedUnused(rule, rules, graph, startRule) ==
    /\ rule.name \in DOMAIN graph
    /\ ~(rule.name = startRule \/ toLowerCase(rule.name) = toLowerCase(startRule))
    /\ ~(Len(graph[rule.name].referencedBy) > 0)
    /\ ~(/\ rule.type = "parser"
         /\ startRule = ""
         /\ FirstParserIndex(rules) # 0
         /\ rules[FirstParserIndex(rules)].name = rule.name)

UnusedSuggestion(rule) ==
    IF rule.type = "fragment"
    THEN "Fragment '" \o rule.name \o "' is never used by other lexer rules. Consider removing it."
    ELSE "Rule '" \o rule.name \o "' is never referenced. Consider removing it or making it the start rule."

RECURSIVE UnusedLoop(_, _, _, _, _)
UnusedLoop(rules, graph, startRule, k, unusedRules) ==
    IF k > Len(rules) THEN unusedRules
    ELSE UnusedLoop(rules, graph, startRule, k + 1,
             IF IsReportedUnused(rules[k], rules, graph, startRule)
             THEN Append(unusedRules,
                         [name |-> rules[k].name, type |-> rules[k].type,
                          suggestion |-> UnusedSuggestion(rules[k])])
             ELSE unusedRules)

detectUnusedRules(rules, graph, startRule) ==
    UnusedLoop(rules, graph, startRule, 1, <<>>)

(***************************************************************************)
(* Complexity metrics                                                      *)
(***************************************************************************)

\* The body of the character loop of calculateRuleDepth.
DepthStep(st, s, i) ==
    LET char == At(s, i)
        prevChar == At(s, i - 1)
    IN  IF (char = "\"" \/ char = "'") /\ prevChar # "\\"
        THEN IF ~st.inString THEN [st EXCEPT !.inString = TRUE, !.stringChar = char]
             ELSE IF char = st.stringChar THEN [st EXCEPT !.inString = FALSE]
             ELSE st
        ELSE IF st.inString THEN st
        ELSE IF char = "(" \/ char = "["
        THEN [st EXCEPT !.currentDepth = @ + 1,
                        !.maxDepth = IF st.currentDepth + 1 > @ THEN st.currentDepth + 1 ELSE @]
        ELSE IF char = ")" \/ char = "]"
        THEN [st EXCEPT !.currentDepth = @ - 1]
        ELSE st

calculateRuleDepth(ruleText) ==
    Fold(DepthStep,
         [maxDepth |-> 0, currentDepth |-> 0, inString |-> FALSE, stringChar |-> ""],
         ruleText).maxDepth

\* dfsFindCycle and the for-loop over node.references inside it.  Both give
\* the returned boolean and the visited and path sets as the call leaves them.
RECURSIVE dfsFindCycle(_, _, _, _, _)
RECURSIVE DfsRefsLoop(_, _, _, _, _, _)
dfsFindCycle(start, current, graph, visited, path) ==
    IF current \in path /\ current = start /\ Cardinality(path) > 1
    THEN [found |-> TRUE, visited |-> visited, path |-> path]
    ELSE IF current \in visited
    THEN [found |-> FALSE, visited |-> visited, path |-> path]
    ELSE LET v1 == visited \cup {current}
             p1 == path \cup {current}
             r == IF current \in DOMAIN graph
                  THEN DfsRefsLoop(start, graph, graph[current].references, 1, v1, p1)
                  ELSE [found |-> FALSE, visited |-> v1, path |-> p1]
         IN  IF r.found THEN r
             ELSE [found |-> FALSE, visited |-> r.visited, path |-> r.path \ {current}]

DfsRefsLoop(start, graph, refs, k, visited, path) ==
    IF k > Len(refs) THEN [found |-> FALSE, visited |-> visited, path |-> path]
    ELSE IF refs[k] = start /\ Cardinality(path) > 1
    THEN [found |-> TRUE, visited |-> visited, path |-> path]
    ELSE IF refs[k] \notin visited
    THEN LET r == dfsFindCycle(start, refs[k], graph, visited, path)
         IN  IF r.found THEN r
             ELSE DfsRefsLoop(start, graph, refs, k + 1, r.visited, r.path)
    ELSE DfsRefsLoop(start, graph, refs, k + 1, visited, path)

RECURSIVE RecursionLoop(_, _, _, _)
RecursionLoop(rules, graph, k, info) ==
    IF k > Len(rules) THEN info
    ELSE IF rules[k].name \notin DOMAIN graph THEN RecursionLoop(rules, graph, k + 1, info)
    ELSE LET name == rules[k].name
             direct == IF Has(graph[name].references, name)
                       THEN info.directlyRecursive \cup {name}
                       ELSE info.directlyRecursive
             hasCycle == dfsFindCycle(name, name, graph, {}, {}).found
         IN  RecursionLoop(rules, graph, k + 1,
                 [directlyRecursive |-> direct,
                  indirectlyRecursive |->
                      IF hasCycle /\ name \notin direct
                      THEN info.indirectlyRecursive \cup {name}
                      ELSE info.indirectlyRecursive])

\* detectRecursion with the cycle search deciding the indirect flag alone.
detectRecursionCycleOnly(rules, graph) ==
    LET info == RecursionLoop(rules, graph, 1,
                    [directlyRecursive |-> {}, indirectlyRecursive |-> {}])
    IN  [directlyRecursive |-> info.directlyRecursive,
         indirectlyRecursive |->
             { n \in DOMAIN graph : dfsFindCycle(n, n, graph, {}, {}).found }]

detectRecursion(rules, graph) ==
    RecursionLoop(rules, graph, 1, [directlyRecursive |-> {}, indirectlyRecursive |-> {}])

\* The body of the character loop of splitAlternatives.
SplitStep(st, s, i) ==
    LET char == At(s, i)
        prevChar == At(s, i - 1)
        quote == (char = "\"" \/ char = "'") /\ prevChar # "\\"
        inString == IF quote /\ ~st.inString THEN TRUE
                    ELSE IF quote /\ char = st.stringChar THEN FALSE
                    ELSE st.inString
        stringChar == IF quote /\ ~st.inString THEN char ELSE st.stringChar
        depth == IF inString THEN st.depth
                 ELSE IF char \in {"(", "[", "{"} THEN st.depth + 1
                 ELSE IF char \in {")", "]", "}"} THEN st.depth - 1
                 ELSE st.depth
    IN  IF ~inString /\ char = "|" /\ depth = 0
        THEN [alternatives |-> Append(st.alternatives, trim(st.current)),
              current |-> "", depth |-> depth,
              inString |-> inString, stringChar |-> stringChar]
        ELSE [alternatives |-> st.alternatives,
              current |-> st.current \o char, depth |-> depth,
              inString |-> inString, stringChar |-> stringChar]

\* current.trim().replace(/;$/, '')
DropFinalSemi(s) ==
    IF Len(s) > 0 /\ At(s, Len(s)) = ";" THEN SubSeq(s, 1, Len(s) - 1) ELSE s

splitAlternatives(ruleText) ==
    LET colonIndex == IndexOf(ruleText, ":", 1)
        body == From(ruleText, colonIndex + 1)
        st == Fold(SplitStep,
                   [alternatives |-> <<>>, current |-> "", depth |-> 0,
                    inString |-> FALSE, stringChar |-> ""],
                   body)
    IN  IF colonIndex = 0 THEN <<ruleText>>
        ELSE IF trim(st.current) # ""
        THEN Append(st.alternatives, DropFinalSemi(trim(st.current)))
        ELSE st.alternatives

\* alternative.match(/^\s*(?:'[^']*'|"[^"]*"|[a-zA-Z_][a-zA-Z0-9_]*)/), trimmed
extractPrefix(alternative) ==
    LET p == SkipSet(alternative, 1, WhiteSpace)
        e == IF StringLitEnd(alternative, p) # 0 THEN StringLitEnd(alternative, p)
             ELSE IF At(alternative, p) \in IdentStart THEN SkipSet(alternative, p + 1, IdentChar)
             ELSE 0
    IN  IF e = 0 THEN "" ELSE trim(SubSeq(alternative, 1, e - 1))

Min(a, b) == IF a < b THEN a ELSE b

\* String.prototype.includes for one character
Includes(s, c) ==
    \E i \in 1..Len(s) : At(s, i) = c

\* estimateLookahead without the cap at 10.
estimateLookaheadUncapped(ruleText) ==
    LET alternatives == splitAlternatives(ruleText)
        prefixes == [k \in 1..Len(alternatives) |-> toLowerCase(extractPrefix(alternatives[k]))]
        l1 == IF Len(alternatives) > 1 /\ Cardinality(Range(prefixes)) < Len(alternatives)
              THEN Min(1 + 2, 5)
              ELSE 1
        l2 == IF Includes(ruleText, "?") \/ Includes(ruleText, "*") THEN l1 + 1 ELSE l1
        depth == calculateRuleDepth(ruleText)
    IN  IF depth > 2 THEN l2 + (depth \div 2) ELSE l2

estimateLookahead(ruleText) ==
    LET alternatives == splitAlternatives(ruleText)
        prefixes == [k \in 1..Len(alternatives) |-> toLowerCase(extractPrefix(alternatives[k]))]
        l1 == IF Len(alternatives) > 1 /\ Cardinality(Range(prefixes)) < Len(alternatives)
              THEN Min(1 + 2, 5)
              ELSE 1
        l2 == IF Includes(ruleText, "?") \/ Includes(ruleText, "*") THEN l1 + 1 ELSE l1
        depth == calculateRuleDepth(ruleText)
        l3 == IF depth > 2 THEN l2 + (depth \div 2) ELSE l2
    IN  Min(l3, 10)

\* calculateComplexityScore that tests the high threshold before the
\* critical one.
calculateComplexityScoreHighFirst(depth, alternatives, referenceCount, directlyRecursive, indirectlyRecursive, lookahead, options) ==
    LET value == depth * 5 + alternatives * 3 + referenceCount * 2 + lookahead * 4
                 + (IF directlyRecursive THEN 15 ELSE 0)
                 + (IF indirectlyRecursive THEN 25 ELSE 0)
    IN  [complexityValue |-> value,
         score |-> IF value >= options.highComplexityThreshold
                   THEN (IF value >= options.criticalComplexityThreshold
                         THEN "critical" ELSE "high")
                   ELSE IF 2 * value >= options.highComplexityThreshold THEN "medium"
                   ELSE "low"]

calculateComplexityScore(depth, alternatives, referenceCount, directlyRecursive, indirectlyRecursive, lookahead, options) ==
    LET value == depth * 5 + alternatives * 3 + referenceCount * 2 + lookahead * 4
                 + (IF directlyRecursive THEN 15 ELSE 0)
                 + (IF indirectlyRecursive THEN 25 ELSE 0)
    IN  [complexityValue |-> value,
         score |-> IF value >= options.criticalComplexityThreshold THEN "critical"
                   ELSE IF value >= options.highComplexityThreshold THEN "high"
                   ELSE IF 2 * value >= options.highComplexityThreshold THEN "medium"
                   ELSE "low"]

\* Array.prototype.sort is stable: an insertion sort by the key Rank, an
\* element going behind those that do not rank after it.
RECURSIVE InsertSorted(_, _, _)
InsertSorted(Rank(_), sorted, x) ==
    IF sorted = <<>> THEN <<x>>
    ELSE IF Rank(sorted[Len(sorted)]) <= Rank(x) THEN Append(sorted, x)
    ELSE Append(InsertSorted(Rank, SubSeq(sorted, 1, Len(sorted) - 1), x), sorted[Len(sorted)])

RECURSIVE StableSortFrom(_, _, _, _)
StableSortFrom(Rank(_), seq, k, sorted) ==
    IF k > Len(seq) THEN sorted
    ELSE StableSortFrom(Rank, seq, k + 1, InsertSorted(Rank, sorted, seq[k]))

StableSort(Rank(_), seq) ==
    StableSortFrom(Rank, seq, 1, <<>>)

\* (a, b) => b.complexityValue - a.complexityValue
ComplexityRank(m) == 0 - m.complexityValue

\* The metrics object pushed for one rule.
RuleMetrics(rule, graph, recursionInfo, options) ==
    LET depth == calculateRuleDepth(rule.text)
        referenceCount == IF rule.name \in DOMAIN graph
                          THEN Len(graph[rule.name].references) ELSE 0
        lookahead == estimateLookahead(rule.text)
        cs == calculateComplexityScore(depth, rule.alternativeCount, referenceCount,
                  rule.name \in recursionInfo.directlyRecursive,
                  rule.name \in recursionInfo.indirectlyRecursive,
                  lookahead, options)
    IN  [name |-> rule.name,
         type |-> rule.type,
         depth |-> depth,
         alternatives |-> rule.alternativeCount,
         referenceCount |-> referenceCount,
         directlyRecursive |-> rule.name \in recursionInfo.directlyRecursive,
         indirectlyRecursive |-> rule.name \in recursionInfo.indirectlyRecursive,
         lookahead |-> lookahead,
         score |-> cs.score,
         complexityValue |-> cs.complexityValue]

\* calculateComplexityMetrics without the final sort.
calculateComplexityMetricsUnsorted(rules, graph, options) ==
    LET recursionInfo == detectRecursion(rules, graph)
    IN  [k \in 1..Len(rules) |-> RuleMetrics(rules[k], graph, recursionInfo, options)]

calculateComplexityMetrics(rules, graph, options) ==
    LET recursionInfo == detectRecursion(rules, graph)
        metrics == [k \in 1..Len(rules) |-> RuleMetrics(rules[k], graph, recursionInfo, options)]
    IN  StableSort(ComplexityRank, metrics)

(***************************************************************************)
(* Performance issues, ambiguity hints, summary.  The free-text fields     *)
(* description and suggestion of issues and hints are not modelled.        *)
(***************************************************************************)

\* complexity.find((c) => c.name === rule.name): its index, or 0.
FindMetrics(complexity, name) ==
    IF \E k \in 1..Len(complexity) : complexity[k].name = name
    THEN CHOOSE k \in 1..Len(complexity) :
             /\ complexity[k].name = name
             /\ \A j \in 1..(k - 1) : complexity[j].name # name
    ELSE 0

Issue(rule, severity, issue, category) ==
    [rule |-> rule.name, type |-> rule.type, severity |-> severity,
     issue |-> issue, category |-> category]

\* The loop body with the five checks chained by else: a rule gets the
\* issue of the first check that holds.
RuleIssuesFirstOnly(rule, metrics) ==
    IF metrics.alternatives > 5 /\ metrics.lookahead > 2
    THEN <<Issue(rule, "warning", "High backtracking potential", "backtracking")>>
    ELSE IF metrics.lookahead >= 4
    THEN <<Issue(rule, "warning", "High lookahead requirement", "lookahead")>>
    ELSE IF metrics.indirectlyRecursive /\ metrics.depth > 3
    THEN <<Issue(rule, "info", "Deep indirect recursion", "recursion")>>
    ELSE IF metrics.depth > 5
    THEN <<Issue(rule, "info", "Deep nesting", "memory")>>
    ELSE IF metrics.score = "critical"
    THEN <<Issue(rule, "error", "Critical complexity", "backtracking")>>
    ELSE <<>>

\* The issues the loop body pushes for one rule, in the order of the checks.
RuleIssues(rule, metrics) ==
    (IF metrics.alternatives > 5 /\ metrics.lookahead > 2
     THEN <<Issue(rule, "warning", "High backtracking potential", "backtracking")>>
     ELSE <<>>)
    \o (IF metrics.lookahead >= 4
        THEN <<Issue(rule, "warning", "High lookahead requirement", "lookahead")>>
        ELSE <<>>)
    \o (IF metrics.indirectlyRecursive /\ metrics.depth > 3
        THEN <<Issue(rule, "info", "Deep indirect recursion", "recursion")>>
        ELSE <<>>)
    \o (IF metrics.depth > 5
        THEN <<Issue(rule, "info", "Deep nesting", "memory")>>
        ELSE <<>>)
    \o (IF metrics.score = "critical"
        THEN <<Issue(rule, "error", "Critical complexity", "backtracking")>>
        ELSE <<>>)

RECURSIVE IssuesLoop(_, _, _, _)
IssuesLoop(rules, complexity, k, issues) ==
    IF k > Len(rules) THEN issues
    ELSE LET m == FindMetrics(complexity, rules[k].name)
         IN  IssuesLoop(rules, complexity, k + 1,
                 IF m = 0 THEN issues
                 ELSE issues \o RuleIssues(rules[k], complexity[m]))

severityOrder ==
    [critical |-> 0, error |-> 1, warning |-> 2, info |-> 3]

SeverityRank(issue) == severityOrder[issue.severity]

\* detectPerformanceIssues without the sort.
detectPerformanceIssuesUnsorted(rules, graph, complexity) ==
    IssuesLoop(rules, complexity, 1, <<>>)

detectPerformanceIssues(rules, graph, complexity) ==
    StableSort(SeverityRank, IssuesLoop(rules, complexity, 1, <<>>))

\* The grouping loop: groups is the Map from normalized prefix to indices,
\* kept as a sequence of [prefix, indices] in insertion order.
RECURSIVE GroupLoop(_, _, _)
GroupLoop(alternatives, k, groups) ==
    IF k > Len(alternatives) THEN groups
    ELSE LET normalized == toLowerCase(extractPrefix(alternatives[k]))
             at == { g \in 1..Len(groups) : groups[g].prefix = normalized }
         IN  GroupLoop(alternatives, k + 1,
                 IF at = {}
                 THEN Append(groups, [prefix |-> normalized, indices |-> <<k - 1>>])
                 ELSE [g \in 1..Len(groups) |->
                          IF g \in at
                          THEN [groups[g] EXCEPT !.indices = Append(@, k - 1)]
                          ELSE groups[g]])

\* GroupHints that does not test the prefix for being empty.
RECURSIVE GroupHintsWithEmpty(_, _, _, _)
GroupHintsWithEmpty(rule, groups, g, hints) ==
    IF g > Len(groups) THEN hints
    ELSE GroupHintsWithEmpty(rule, groups, g + 1,
             IF Len(groups[g].indices) > 1
             THEN Append(hints, [rule |-> rule.name,
                                 alternativeIndices |-> groups[g].indices,
                                 commonPrefix |-> <<groups[g].prefix>>])
             ELSE hints)

RECURSIVE GroupHints(_, _, _, _)
GroupHints(rule, groups, g, hints) ==
    IF g > Len(groups) THEN hints
    ELSE GroupHints(rule, groups, g + 1,
             IF Len(groups[g].indices) > 1 /\ groups[g].prefix # ""
             THEN Append(hints, [rule |-> rule.name,
                                 alternativeIndices |-> groups[g].indices,
                                 commonPrefix |-> <<groups[g].prefix>>])
             ELSE hints)

RECURSIVE HintsLoop(_, _, _)
HintsLoop(rules, k, hints) ==
    IF k > Len(rules) THEN hints
    ELSE IF rules[k].type # "parser" THEN HintsLoop(rules, k + 1, hints)
    ELSE LET alternatives == splitAlternatives(rules[k].text)
         IN  IF Len(alternatives) < 2 THEN HintsLoop(rules, k + 1, hints)
             ELSE HintsLoop(rules, k + 1,
                      GroupHints(rules[k], GroupLoop(alternatives, 1, <<>>), 1, hints))

detectAmbiguityHints(rules) ==
    HintsLoop(rules, 1, <<>>)

\* array.filter(pred).length
Count(seq, Pred(_)) ==
    Cardinality({ k \in 1..Len(seq) : Pred(seq[k]) })

\* calculateSummary that counts the performance issues alone by severity.
calculateSummaryIssuesOnly(rules, unusedRules, complexity, performanceIssues, ambiguityHints) ==
    LET IsParser(r) == r.type = "parser"
        IsLexer(r) == r.type = "lexer"
        IsFragment(r) == r.type = "fragment"
        IsHigh(c) == c.score = "high" \/ c.score = "critical"
        IsInfo(i) == i.severity = "info"
        IsWarning(i) == i.severity = "warning"
        IsError(i) == i.severity = "error"
        IsCritical(i) == i.severity = "critical"
    IN  [totalRules |-> Len(rules),
         parserRules |-> Count(rules, IsParser),
         lexerRules |-> Count(rules, IsLexer),
         fragmentRules |-> Count(rules, IsFragment),
         unusedRules |-> Len(unusedRules),
         highComplexityRules |-> Count(complexity, IsHigh),
         performanceIssues |-> Len(performanceIssues),
         ambiguityHints |-> Len(ambiguityHints),
         issuesBySeverity |->
             [info |-> Count(performanceIssues, IsInfo),
              warning |-> Count(performanceIssues, IsWarning),
              error |-> Count(performanceIssues, IsError),
              critical |-> Count(performanceIssues, IsCritical)]]

calculateSummary(rules, unusedRules, complexity, performanceIssues, ambiguityHints) ==
    LET IsParser(r) == r.type = "parser"
        IsLexer(r) == r.type = "lexer"
        IsFragment(r) == r.type = "fragment"
        IsHigh(c) == c.score = "high" \/ c.score = "critical"
        IsInfo(i) == i.severity = "info"
        IsWarning(i) == i.severity = "warning"
        IsError(i) == i.severity = "error"
        IsCritical(i) == i.severity = "critical"
    IN  [totalRules |-> Len(rules),
         parserRules |-> Count(rules, IsParser),
         lexerRules |-> Count(rules, IsLexer),
         fragmentRules |-> Count(rules, IsFragment),
         unusedRules |-> Len(unusedRules),
         highComplexityRules |-> Count(complexity, IsHigh),
         performanceIssues |-> Len(performanceIssues),
         ambiguityHints |-> Len(ambiguityHints),
         issuesBySeverity |->
             [info |-> Count(performanceIssues, IsInfo) + Len(ambiguityHints),
              warning |-> Count(performanceIssues, IsWarning) + Len(unusedRules),
              error |-> Count(performanceIssues, IsError),
              critical |-> Count(performanceIssues, IsCritical)]]

(***************************************************************************)
(* The content hash.  A JavaScript number that went through a bitwise      *)
(* operator is a signed 32-bit integer; TLC's integers are 32 bits wide    *)
(* too, so sums that may leave that range are formed in 16-bit halves.     *)
(***************************************************************************)

\* The characters with the codes 32..95 and 97..126 (a TLA+ string cannot
\* hold the grave accent, code 96).
PrintableLow ==
    " !\"#$%&'()*+,-./0123456789:;<=>?@ABCDEFGHIJKLMNOPQRSTUVWXYZ[\\]^_"

PrintableHigh ==
    "abcdefghijklmnopqrstuvwxyz{|}~"

\* String.prototype.charCodeAt for the ASCII characters of the model.
CharCodeTable ==
    [c \in CharsOf(PrintableLow) \cup CharsOf(PrintableHigh) \cup {"\t", "\n", "\f", "\r"} |->
        IF c = "\t" THEN 9
        ELSE IF c = "\n" THEN 10
        ELSE IF c = "\f" THEN 12
        ELSE IF c = "\r" THEN 13
        ELSE IF c \in CharsOf(PrintableLow)
        THEN 31 + (CHOOSE k \in 1..Len(PrintableLow) : SubSeq(PrintableLow, k, k) = c)
        ELSE 96 + (CHOOSE k \in 1..Len(PrintableHigh) : SubSeq(PrintableHigh, k, k) = c)]

charCodeAt(s, i) == CharCodeTable[At(s, i)]

\* ToInt32 of hi * 2^16 + lo, for hi and lo of any sign and small size.
Int32Of(hi, lo) ==
    LET h == hi + (lo \div 65536)
    IN  (((h + 32768) % 65536) - 32768) * 65536 + (lo % 65536)

\* hash << 5
ShiftLeft5(hash) ==
    LET u == hash % 134217728
    IN  IF u >= 67108864 THEN (u - 134217728) * 32 ELSE u * 32

\* The loop body without the subtraction: hash = (hash << 5) + char.
HashStepShiftOnly(hash, s, i) ==
    LET shifted == ShiftLeft5(hash)
    IN  Int32Of(shifted \div 65536, (shifted % 65536) + charCodeAt(s, i))

\* hash = (hash << 5) - hash + char;  hash = hash & hash;
HashStep(hash, s, i) ==
    LET shifted == ShiftLeft5(hash)
    IN  Int32Of((shifted \div 65536) - (hash \div 65536),
                (shifted % 65536) - (hash % 65536) + charCodeAt(s, i))

HexDigits == "0123456789abcdef"

RECURSIVE HexOf(_)
HexOf(n) ==
    IF n < 16 THEN SubSeq(HexDigits, n + 1, n + 1)
    ELSE HexOf(n \div 16) \o SubSeq(HexDigits, (n % 16) + 1, (n % 16) + 1)

\* The four hexadecimal digits of n, 0 <= n < 2^16.
Hex4(n) ==
    LET h == HexOf(n) IN SubSeq("000", 1, 4 - Len(h)) \o h

\* Number.prototype.toString(16) of a signed 32-bit integer.
toString16(hash) ==
    IF hash >= 0 THEN HexOf(hash)
    ELSE LET m == 0 - (hash + 1)
             lo == (m % 65536) + 1
             hi == (m \div 65536) + (lo \div 65536)
         IN  "-" \o (IF hi = 0 THEN HexOf(lo % 65536) ELSE HexOf(hi) \o Hex4(lo % 65536))

hashGrammar(content) ==
    toString16(Fold(HashStep, 0, content))

(***************************************************************************)
(* analyze and the result cache.  The cache (a Map, iterated in insertion  *)
(* order) is the sequence of its entries, oldest insertion first; an       *)
(* entry's key is its hash field.  The report's duration is not modelled,  *)
(* and one call reads one clock value.                                     *)
(***************************************************************************)

CACHE_TTL == 5 * 60 * 1000

MAX_CACHE_SIZE == 10

DEFAULT_ANALYSIS_OPTIONS ==
    [detectUnusedRules |-> TRUE,
     analyzeComplexity |-> TRUE,
     detectPerformanceIssues |-> TRUE,
     detectAmbiguity |-> TRUE,
     startRule |-> "",
     highComplexityThreshold |-> 50,
     criticalComplexityThreshold |-> 100]

\* { ...DEFAULT_ANALYSIS_OPTIONS, ...options }: options is a function on the
\* names of the options the caller gives.
MergeOptions(options) ==
    [k \in DOMAIN DEFAULT_ANALYSIS_OPTIONS |->
        IF k \in DOMAIN options THEN options[k] ELSE DEFAULT_ANALYSIS_OPTIONS[k]]

\* The part of analyze between the cache lookup and the construction of the
\* result: the rules, the graph and the four diagnostics.
RunAnalysis(grammarContent, mergedOptions) ==
    LET parsed == parseGrammar(grammarContent)
        referenceGraph == buildReferenceGraph(parsed)
        rules == updateRuleReferences(parsed, referenceGraph)
        unusedRules == IF mergedOptions.detectUnusedRules
                       THEN detectUnusedRules(rules, referenceGraph, mergedOptions.startRule)
                       ELSE <<>>
        complexity == IF mergedOptions.analyzeComplexity
                      THEN calculateComplexityMetrics(rules, referenceGraph, mergedOptions)
                      ELSE <<>>
        performanceIssues == IF mergedOptions.detectPerformanceIssues
                             THEN detectPerformanceIssues(rules, referenceGraph, complexity)
                             ELSE <<>>
        ambiguityHints == IF mergedOptions.detectAmbiguity
                          THEN detectAmbiguityHints(rules)
                          ELSE <<>>
    IN  [summary |-> calculateSummary(rules, unusedRules, complexity,
                                      performanceIssues, ambiguityHints),
         rules |-> rules,
         unusedRules |-> unusedRules,
         complexity |-> complexity,
         performanceIssues |-> performanceIssues,
         ambiguityHints |-> ambiguityHints,
         referenceGraph |-> referenceGraph]

(***************************************************************************)
(* The inputs of the model                                                 *)
(***************************************************************************)

\* A grammar with an unused rule (u), two alternatives with a common first
\* token (s) and a rule whose lookahead estimate raises a performance issue.
GrammarS ==
    "grammar T;\ns : 'r' e | 'r' e* ;\ne : ID ;\nu : NUM ;\nID : [a-z]+ ;\n"

GrammarE ==
    "grammar E;\nexpr : expr '+' term | term ;\nterm : ID ;\nID : [a-z]+ ;\n"

BaseGrammars == {GrammarS, GrammarE}

EmptyOptions == [k \in {} |-> TRUE]

\* The options objects the callers of the model pass.
OptionChoices ==
    {EmptyOptions,
     [detectUnusedRules |-> FALSE],
     [analyzeComplexity |-> FALSE],
     [detectPerformanceIssues |-> FALSE],
     [detectAmbiguity |-> FALSE],
     [startRule |-> "u"],
     [startRule |-> "S"]}

\* An editing session: the grammar in the editor is SessionBase followed by
\* the first n characters of TypedText, 0 <= n <= MaxTyped.
SessionBase ==
    "grammar T;\ns : e ;\ne : ID ;\nID : [a-z]+ ;"

TypedText ==
    "\nv : ID | s ;\nNUM : [0-9]+ ;\n"

MaxTyped == 11

SessionContent(n) ==
    SessionBase \o SubSeq(TypedText, 1, n)

SessionGrammars == { SessionContent(n) : n \in 0..MaxTyped }

\* The number of clock advances in a run.
MaxTicks == 2

\* The amounts the clock advances by.
TickSteps == {1, CACHE_TTL}

\* Grammars for the reference graph: the rules a, b and c, whose bodies are
\* sequences of distinct names out of a, b, c and the undeclared x, in any
\* order, with at most MaxRefs references in the whole grammar.
MaxRefs == 4

RefNames == {"a", "b", "c", "x"}

RefSeqs ==
    { q \in UNION { [1..n -> RefNames] : n \in 0..Cardinality(RefNames) } :
        \A i, j \in 1..Len(q) : i # j => q[i] # q[j] }

RECURSIVE JoinWords(_, _)
JoinWords(q, k) ==
    IF k > Len(q) THEN "" ELSE q[k] \o " " \o JoinWords(q, k + 1)

GraphGrammar(ra, rb, rc) ==
    "a : " \o JoinWords(ra, 1) \o ";\nb : " \o JoinWords(rb, 1)
        \o ";\nc : " \o JoinWords(rc, 1) \o ";"

GraphGrammars ==
    { GraphGrammar(t[1], t[2], t[3]) :
        t \in { u \in RefSeqs \X RefSeqs \X RefSeqs :
                  Len(u[1]) + Len(u[2]) + Len(u[3]) <= MaxRefs } }

\* Grammars for the rule list: up to MaxDecls lines out of DeclTexts, in any
\* order and with repetitions, after a grammar declaration.
MaxDecls == 3

DeclTexts ==
    {"a : b A ;", "b : B ;", "a : 'k' ;", "A : 'x' F ;", "B : [0-9]+ ;",
     "fragment F : [a-z] ;", "F : 'f' ;", "// fragment B : 'o' ;"}

DeclSeqs == UNION { [1..n -> DeclTexts] : n \in 0..MaxDecls }

RECURSIVE JoinLines(_, _)
JoinLines(q, k) ==
    IF k > Len(q) THEN "" ELSE q[k] \o "\n" \o JoinLines(q, k + 1)

DeclGrammar(q) == "grammar G;\n" \o JoinLines(q, 1)

DeclGrammars == { DeclGrammar(q) : q \in DeclSeqs }

StartRules == {"", "a", "B"}

\* The calls analyze(content, options) made on a new analyzer.
PipeInputs ==
    [content : GraphGrammars, options : {EmptyOptions}]
        \cup [content : DeclGrammars,
              options : { [startRule |-> n] : n \in StartRules }]

\* Grammars for the metrics of one rule: the body of the parser rule a is
\* up to MaxParts pieces out of PartTexts, in any order and with
\* repetitions; s and b reference a, F is a fragment, and the two
\* alternatives of the lexer rule X start with the same token.
MaxParts == 3

PartTexts ==
    {"b", "F", "| b", "| B x", "| 'p|q'", "( c | d )?", "[e|f]", "{ g | h }*",
     "((", "((((((((", "| | | |"}

PartSeqs == UNION { [1..n -> PartTexts] : n \in 0..MaxParts }

RuleGrammar(q) ==
    "grammar R;\ns : a ;\na : " \o JoinWords(q, 1)
        \o ";\nb : a ;\nfragment F : 'f' ;\nX : 'p' | 'p' 'q' ;\n"

RuleGrammars == { RuleGrammar(q) : q \in PartSeqs }

\* Options that set the two complexity thresholds: apart, equal, inverted.
ThresholdChoices ==
    {[highComplexityThreshold |-> 15, criticalComplexityThreshold |-> 30],
     [highComplexityThreshold |-> 20, criticalComplexityThreshold |-> 20],
     [highComplexityThreshold |-> 30, criticalComplexityThreshold |-> 10]}

\* The calls analyze(content, options) made on a new analyzer for the
\* metrics: every grammar with the default thresholds, the grammars of
\* fewer pieces with each choice of thresholds.
RuleInputs ==
    [content : RuleGrammars, options : {EmptyOptions}]
        \cup [content : { RuleGrammar(q) : q \in { r \in PartSeqs : Len(r) < MaxParts } },
              options : ThresholdChoices]

\* The grammars analysed with the default options while the clock advances.
ExpiryGrammars == BaseGrammars \cup {SessionBase}

\* One-character edits of a grammar text: a character is replaced, a
\* character is inserted (at the start, between two characters or at the
\* end), or a character is deleted.
EditChars == {"0", "x", "b", ";"}

EditBases ==
    {"grammar G;\ns : ciaftba ;\n", "grammar G;\ns : xrdanuj ;\n",
     "grammar G;\ns : b ;\n"}

Substituted(s, i, c) ==
    SubSeq(s, 1, i - 1) \o c \o SubSeq(s, i + 1, Len(s))

Inserted(s, i, c) ==
    SubSeq(s, 1, i) \o c \o SubSeq(s, i + 1, Len(s))

Deleted(s, i) ==
    SubSeq(s, 1, i - 1) \o SubSeq(s, i + 1, Len(s))

Substitutions(s) ==
    { Substituted(s, i, c) : i \in 1..Len(s), c \in EditChars } \ {s}

Insertions(s) ==
    { Inserted(s, i, c) : i \in 0..Len(s), c \in EditChars }

Deletions(s) ==
    { Deleted(s, i) : i \in 1..Len(s) }

\* Arbitrary texts: up to MaxPieces pieces, put together as they stand.  The
\* pieces open braces, parentheses, literals, comments and header blocks
\* that nothing closes, and start rules that nothing ends.
MaxPieces == 3

TextPieces ==
    {"{", "}", "(", "'", "/*", "*/", "//", "\n", "options {", "tokens {",
     "a : b ;", "a :", "fragment A", ";"}

RECURSIVE ConcatFrom(_, _)
ConcatFrom(q, k) ==
    IF k > Len(q) THEN "" ELSE q[k] \o ConcatFrom(q, k + 1)

PieceTexts ==
    { ConcatFrom(q, 1) : q \in UNION { [1..n -> TextPieces] : n \in 0..MaxPieces } }

\* Texts that consist of comments alone: block comments whose body has no
\* "*/", and line comments, one to a line.
BlockBodies == {"", " c ", "\na : b ;\n", "\na : b ; // ", " http://x "}

LineBodies == {"", " a : b ;", " /* a : b ;"}

Comments ==
    { "/*" \o b \o "*/" : b \in BlockBodies } \cup { "//" \o b : b \in LineBodies }

CommentOnlyTexts ==
    Comments \cup { c \o "\n" \o d : c \in Comments, d \in Comments }

\* Every rule definition has a colon after the rule's name, and a comment
\* defines no rule.
HasNoRuleDefinition(s) ==
    \/ ":" \notin CharsOf(s)
    \/ s \in CommentOnlyTexts

TextInputs ==
    [content : PieceTexts \cup CommentOnlyTexts, options : {EmptyOptions}]

\* Options that switch off one of the four diagnostics, or none.
SwitchNames ==
    {"detectUnusedRules", "analyzeComplexity", "detectPerformanceIssues",
     "detectAmbiguity"}

SwitchChoices ==
    {EmptyOptions} \cup { [k \in {n} |-> FALSE] : n \in SwitchNames }

SwitchInputs ==
    [content : BaseGrammars
                   \cup { RuleGrammar(q) : q \in { r \in PartSeqs : Len(r) < MaxParts } },
     options : SwitchChoices]

\* The analyses and hashes of the grammars above, as tables.
MemoInputs ==
    (BaseGrammars \X OptionChoices)
        \cup ((SessionGrammars \cup ExpiryGrammars) \X {EmptyOptions})

AnalysisTable ==
    [p \in MemoInputs |-> RunAnalysis(p[1], MergeOptions(p[2]))]

HashTable ==
    [g \in BaseGrammars \cup SessionGrammars \cup ExpiryGrammars |-> hashGrammar(g)]

Analysis(grammarContent, options) ==
    IF <<grammarContent, options>> \in DOMAIN AnalysisTable
    THEN AnalysisTable[<<grammarContent, options>>]
    ELSE RunAnalysis(grammarContent, MergeOptions(options))

Hash(grammarContent) ==
    IF grammarContent \in DOMAIN HashTable
    THEN HashTable[grammarContent]
    ELSE hashGrammar(grammarContent)

(***************************************************************************)
(* The cache and analyze                                                   *)
(***************************************************************************)

\* The position of the entry with the key hash in cache c, or 0.
CacheIndex(c, hash) ==
    IF \E k \in 1..Len(c) : c[k].hash = hash
    THEN CHOOSE k \in 1..Len(c) : c[k].hash = hash
    ELSE 0

\* Map.prototype.delete of the k-th entry.
DeleteAt(c, k) ==
    SubSeq(c, 1, k - 1) \o SubSeq(c, k + 1, Len(c))

\* getFromCache that moves the entry it returns to the newest place.
getFromCacheRefreshing(c, hash, t) ==
    LET k == CacheIndex(c, hash)
    IN  IF k = 0 THEN [found |-> FALSE, cache |-> c]
        ELSE IF t - c[k].timestamp > CACHE_TTL
        THEN [found |-> FALSE, cache |-> DeleteAt(c, k)]
        ELSE [found |-> TRUE, result |-> c[k].result,
              cache |-> Append(DeleteAt(c, k), c[k])]

\* getFromCache that takes an entry whose age is the TTL for expired.
getFromCacheEarly(c, hash, t) ==
    LET k == CacheIndex(c, hash)
    IN  IF k = 0 THEN [found |-> FALSE, cache |-> c]
        ELSE IF t - c[k].timestamp >= CACHE_TTL
        THEN [found |-> FALSE, cache |-> DeleteAt(c, k)]
        ELSE [found |-> TRUE, result |-> c[k].result, cache |-> c]

\* getFromCache at clock value t: found and result are what it returns (not
\* found is null), cache is the cache as it leaves it.
getFromCache(c, hash, t) ==
    LET k == CacheIndex(c, hash)
    IN  IF k = 0 THEN [found |-> FALSE, cache |-> c]
        ELSE IF t - c[k].timestamp > CACHE_TTL
        THEN [found |-> FALSE, cache |-> DeleteAt(c, k)]
        ELSE [found |-> TRUE, result |-> c[k].result, cache |-> c]

\* setCache without the limit on the size.
setCacheUnlimited(c, hash, result, t) ==
    LET entry == [result |-> result, hash |-> hash, timestamp |-> t]
        k == CacheIndex(c, hash)
    IN  IF k = 0 THEN Append(c, entry) ELSE [c EXCEPT ![k] = entry]

\* setCache at clock value t.  Map.prototype.set keeps the place of a key
\* that is present; an empty oldest key is falsy and would not be deleted.
setCache(c, hash, result, t) ==
    LET entry == [result |-> result, hash |-> hash, timestamp |-> t]
        k == CacheIndex(c, hash)
        c1 == IF k = 0 THEN Append(c, entry) ELSE [c EXCEPT ![k] = entry]
    IN  IF Len(c1) > MAX_CACHE_SIZE /\ c1[1].hash # ""
        THEN Tail(c1)
        ELSE c1

\* The AnalysisResult object that analyze builds is determined by the
\* content and the options of the call that builds it, by the clock at that
\* time and by the hash analyze puts into it.  The state holds an object as
\* these four values, and Report gives the object's fields.
NewResult(grammarContent, options, t, grammarHash) ==
    [content |-> grammarContent, options |-> options, timestamp |-> t,
     grammarHash |-> grammarHash]

Report(r) ==
    LET a == Analysis(r.content, r.options)
    IN  [summary |-> a.summary,
         rules |-> a.rules,
         unusedRules |-> a.unusedRules,
         complexity |-> a.complexity,
         performanceIssues |-> a.performanceIssues,
         ambiguityHints |-> a.ambiguityHints,
         timestamp |-> r.timestamp,
         grammarHash |-> r.grammarHash]

\* analyze on the cache c at clock value t: the returned result, the cache
\* afterwards, and whether the result came from the cache.
analyze(c, t, grammarContent, options) ==
    LET grammarHash == Hash(grammarContent)
        cached == getFromCache(c, grammarHash, t)
        result == NewResult(grammarContent, options, t, grammarHash)
    IN  IF cached.found
        THEN [result |-> cached.result, cache |-> cached.cache, hit |-> TRUE]
        ELSE [result |-> result,
              cache |-> setCache(cached.cache, grammarHash, result, t),
              hit |-> FALSE]

clearCache(c) == <<>>

(***************************************************************************)
(* The state machine.  cache and now are the analyzer's cache and the      *)
(* clock (Date.now()); ret records the last call and what it returned,     *)
(* first the first analyze call of the run; typed is the editing           *)
(* session's position; input is the argument of the one call made on a     *)
(* new analyzer.                                                           *)
(***************************************************************************)

VARIABLES cache, now, ticks, ret, first, typed, input

\* The history files of the server: disk is the data directory, calls the
\* HistoryService calls in progress, started the number of calls made,
\* returned the calls that have returned, in the order of their return.
VARIABLES disk, calls, started, returned

\* The auto-save hook: status is its state of that name, the variables
\* ending in Ref are its refs of these names (timeoutRef is the id of the
\* throttle timer it set last, 0 for null), throttleTimers the throttle
\* timers that are set and have not fired, resetTimers the number of
\* pending timers that put the status back to idle, inFlight the updateFile
\* requests that have not settled, events the number of user events so
\* far, and markedDirty whether markDirty was called after the last edit.
VARIABLES status, lastSavedContentRef, pendingContentRef, timeoutRef,
          isSavingRef, fileIdRef, throttleTimers, resetTimers, inFlight,
          events, markedDirty

\* The grammar-analysis hook: result, the refs debounceTimerRef (0 for
\* null) and lastGrammarRef, the debounce timers that are set and have not
\* fired, the option debounceMs, whether the component is mounted, the
\* number of calls so far and the last call.
VARIABLES hookResult, debounceTimerRef, lastGrammarRef, debounceTimers,
          debounceMs, mounted, hookCalls, lastHookCall

analyzerVars == <<cache, now, ticks, ret, first, typed, input>>

historyVars == <<disk, calls, started, returned>>

saveVars ==
    <<status, lastSavedContentRef, pendingContentRef, timeoutRef, isSavingRef,
      fileIdRef, throttleTimers, resetTimers, inFlight, events, markedDirty>>

hookVars ==
    <<hookResult, debounceTimerRef, lastGrammarRef, debounceTimers, debounceMs,
      mounted, hookCalls, lastHookCall>>

others == <<historyVars, saveVars, hookVars>>

notHistory == <<analyzerVars, saveVars, hookVars>>

notSave == <<analyzerVars, historyVars, hookVars>>

vars == <<analyzerVars, others>>

(***************************************************************************)
(* The history service.  A history file holds the versions array of one    *)
(* file; readFile and writeFile each take effect at one moment, and a call *)
(* is suspended at each await.  The timestamp and the label of an entry    *)
(* are not modelled.                                                       *)
(***************************************************************************)

FileIds == {"f1"}

Contents == {"c1", "c2"}

\* The number of HistoryService calls in a run.
MaxCalls == 4

\* The calls that can be in progress at the same time.
CallIds == {1, 2}

NoFile == [exists |-> FALSE, versions |-> <<>>]

IdleCall == [pc |-> "idle"]

\* getHistory: the versions of the history file, [] when there is none.
getHistory(d, fileId) ==
    IF d[fileId].exists THEN d[fileId].versions ELSE <<>>

\* Math.max(...versions.map(v => v.version))
MaxVersion(versions) ==
    CHOOSE m \in { versions[k].version : k \in 1..Len(versions) } :
        \A k \in 1..Len(versions) : versions[k].version <= m

\* nextVersion that counts the entries.
nextVersionByLength(versions) ==
    Len(versions) + 1

nextVersion(versions) ==
    IF Len(versions) > 0 THEN MaxVersion(versions) + 1 ELSE 1

newEntry(versions, content, description) ==
    [version |-> nextVersion(versions), content |-> content,
     description |-> description]

\* versions.find(v => v.version === versionNumber): its index, or 0.
FindVersion(versions, versionNumber) ==
    IF \E k \in 1..Len(versions) : versions[k].version = versionNumber
    THEN CHOOSE k \in 1..Len(versions) :
             /\ versions[k].version = versionNumber
             /\ \A j \in 1..(k - 1) : versions[j].version # versionNumber
    ELSE 0

\* A restore description that does not name the version.
RestoreDescriptionPlain(versionNumber) ==
    "Restored"

\* `Restored from version ${versionNumber}`
RestoreDescription(versionNumber) ==
    "Restored from version " \o ToString(versionNumber)

\* versions.filter(v => !versionNumbers.includes(v.version))
filteredVersions(versions, versionNumbers) ==
    SelectSeq(versions, LAMBDA v : v.version \notin versionNumbers)

\* fs.writeFile of the history of fileId.
writeFile(d, fileId, versions) ==
    [d EXCEPT ![fileId] = [exists |-> TRUE, versions |-> versions]]

\* fs.unlink of the history file.
unlink(d, fileId) ==
    [d EXCEPT ![fileId] = NoFile]

HistoryIdle ==
    /\ disk = [f \in FileIds |-> NoFile]
    /\ calls = [p \in CallIds |-> IdleCall]
    /\ started = 0
    /\ returned = <<>>

(***************************************************************************)
(* The auto-save hook.  The contents of the editor and the open files are  *)
(* drawn from small sets; a request is the pair of arguments of its        *)
(* updateFile call.  The error message, lastSaved and the callbacks onSave *)
(* and onError are not modelled, and the component stays mounted.          *)
(***************************************************************************)

SaveContents == {"c0", "c1", "c2"}

\* The ids of the open files; "" is null, no file.
FileTabs == {"", "f1", "f2"}

\* The number of user events (edits, markDirty and saveNow calls, window
\* blurs, file switches) in a run.
MaxEvents == 5

\* clearTimeout(id) on the timers that are set.
clearTimeout(timers, id) ==
    timers \ {id}

\* performSave(immediate): what it does up to its await of updateFile.
performSave(immediate) ==
    IF \/ fileIdRef = ""
       \/ pendingContentRef = lastSavedContentRef
       \/ isSavingRef /\ ~immediate
    THEN UNCHANGED <<isSavingRef, status, inFlight>>
    ELSE /\ isSavingRef' = TRUE
         /\ status' = "saving"
         /\ inFlight' = Append(inFlight, [fileId |-> fileIdRef,
                                          content |-> pendingContentRef])

SaveIdle ==
    /\ status = "idle"
    /\ lastSavedContentRef = "c0"
    /\ pendingContentRef = "c0"
    /\ timeoutRef = 0
    /\ isSavingRef = FALSE
    /\ fileIdRef = "f1"
    /\ throttleTimers = {}
    /\ resetTimers = 0
    /\ inFlight = <<>>
    /\ events = 0
    /\ markedDirty = FALSE

(***************************************************************************)
(* The grammar-analysis hook, with autoAnalyze on.  A debounce timer is    *)
(* its id and the content its callback will analyse.  isAnalyzing and      *)
(* error are not modelled.                                                 *)
(***************************************************************************)

\* The number of analyze and clearAnalysis calls in a run.
MaxHookCalls == 4

\* clearTimeout that leaves the timer set.
clearDebounceNoop(timers, id) ==
    timers

\* clearTimeout(debounceTimerRef.current) on the debounce timers.
clearDebounce(timers, id) ==
    { t \in timers : t.id # id }

HookStart(ms) ==
    /\ hookResult = [isNull |-> TRUE]
    /\ debounceTimerRef = 0
    /\ lastGrammarRef = ""
    /\ debounceTimers = {}
    /\ debounceMs = ms
    /\ mounted = TRUE
    /\ hookCalls = 0
    /\ lastHookCall = [op |-> "none"]

HookIdle == HookStart(500)

OthersIdle ==
    /\ HistoryIdle
    /\ SaveIdle
    /\ HookIdle

NoCall == [op |-> "none"]

NoInput == [content |-> "", options |-> EmptyOptions]

NoOutput == [done |-> FALSE]

\* The keys of the cache.
Keys(c) == { c[k].hash : k \in 1..Len(c) }

\* What is recorded of a call analyze(grammarContent, options): its
\* arguments, the result it returned, whether the result came from the
\* cache, and the keys that were in the cache before the call and are not
\* after it.
CallRecord(grammarContent, options, r, removed) ==
    [op |-> "analyze", content |-> grammarContent, options |-> options,
     hit |-> r.hit, result |-> r.result, removed |-> removed]

\* The intermediate values of analyze when it does not find the grammar in
\* the cache.
Pipeline(grammarContent, options) ==
    LET a == Analysis(grammarContent, options)
    IN  [done |-> TRUE,
         rules |-> a.rules,
         referenceGraph |-> a.referenceGraph,
         unusedRules |-> a.unusedRules,
         complexity |-> a.complexity,
         performanceIssues |-> a.performanceIssues,
         ambiguityHints |-> a.ambiguityHints,
         summary |-> a.summary]

\* The intermediate values of the last call, when it was an analyze that did
\* not find the grammar in the cache.
output ==
    IF ret.op = "analyze" /\ ~ret.hit
    THEN Pipeline(ret.content, ret.options)
    ELSE NoOutput

\* A call analyze(grammarContent, options).
Analyze(grammarContent, options) ==
    LET r == analyze(cache, now, grammarContent, options)
        call == CallRecord(grammarContent, options, r, Keys(cache) \ Keys(r.cache))
    IN  /\ cache' = r.cache
        /\ ret' = call
        /\ first' = IF first.op = "none" THEN call ELSE first
        /\ UNCHANGED <<now, ticks, others>>

\* A caller analyses a grammar with options of its choice.
AnalyzeAny ==
    /\ \E g \in BaseGrammars, o \in OptionChoices : Analyze(g, o)
    /\ UNCHANGED <<typed, input>>

\* A call clearCache().
ClearCache ==
    /\ cache # <<>>
    /\ cache' = clearCache(cache)
    /\ ret' = [op |-> "clearCache"]
    /\ UNCHANGED <<now, ticks, first, typed, input, others>>

\* Time passes between two calls.
Tick ==
    /\ ticks < MaxTicks
    /\ \E d \in TickSteps : now' = now + d
    /\ ticks' = ticks + 1
    /\ ret' = [op |-> "tick"]
    /\ UNCHANGED <<cache, first, typed, input, others>>

Init ==
    /\ cache = <<>>
    /\ now = 0
    /\ ticks = 0
    /\ ret = NoCall
    /\ first = NoCall
    /\ typed = 0
    /\ input = NoInput
    /\ OthersIdle

Next ==
    \/ AnalyzeAny
    \/ ClearCache
    \/ Tick

Spec == Init /\ [][Next]_vars

\* The editing session: a character is typed, the content is reverted to
\* the saved grammar, or it is left as it stands; the content is then
\* analysed with the default options.
SessionEdit ==
    /\ \E n \in {0, typed, typed + 1} :
           /\ n \in 0..MaxTyped
           /\ typed' = n
           /\ Analyze(SessionContent(n), EmptyOptions)
    /\ UNCHANGED input

NextSession ==
    \/ SessionEdit
    \/ ClearCache

SpecSession == Init /\ [][NextSession]_vars

\* Grammars are analysed with the default options while the clock advances.
AnalyzeDefault ==
    /\ \E g \in ExpiryGrammars : Analyze(g, EmptyOptions)
    /\ UNCHANGED <<typed, input>>

NextExpiry ==
    \/ AnalyzeDefault
    \/ Tick

SpecExpiry == Init /\ [][NextExpiry]_vars

\* One call of analyze on a new analyzer: the cache is empty, so the call
\* computes the report.
InitPipe ==
    /\ cache = <<>>
    /\ now = 0
    /\ ticks = 0
    /\ ret = NoCall
    /\ first = NoCall
    /\ typed = 0
    /\ input \in PipeInputs
    /\ OthersIdle

AnalyzeInput ==
    /\ ret.op = "none"
    /\ Analyze(input.content, input.options)
    /\ UNCHANGED <<typed, input>>

NextPipe == AnalyzeInput

SpecPipe == InitPipe /\ [][NextPipe]_vars

\* The same call, for the grammars of the rule metrics.
InitRule ==
    /\ cache = <<>>
    /\ now = 0
    /\ ticks = 0
    /\ ret = NoCall
    /\ first = NoCall
    /\ typed = 0
    /\ input \in RuleInputs
    /\ OthersIdle

SpecRule == InitRule /\ [][NextPipe]_vars

\* The same call, for arbitrary texts.
InitText ==
    /\ cache = <<>>
    /\ now = 0
    /\ ticks = 0
    /\ ret = NoCall
    /\ first = NoCall
    /\ typed = 0
    /\ input \in TextInputs
    /\ OthersIdle

SpecText == InitText /\ [][NextPipe]_vars

\* The same call, with one of the four diagnostics switched off.
InitSwitch ==
    /\ cache = <<>>
    /\ now = 0
    /\ ticks = 0
    /\ ret = NoCall
    /\ first = NoCall
    /\ typed = 0
    /\ input \in SwitchInputs
    /\ OthersIdle

SpecSwitch == InitSwitch /\ [][NextPipe]_vars

\* A grammar is analysed on a new analyzer, one character of it is changed,
\* and the changed grammar is analysed at once; typed records the kind of
\* the change (1 a replaced, 2 an inserted, 3 a deleted character).
InitEdit ==
    /\ cache = <<>>
    /\ now = 0
    /\ ticks = 0
    /\ ret = NoCall
    /\ first = NoCall
    /\ typed = 0
    /\ input \in [content : EditBases, options : {EmptyOptions}]
    /\ OthersIdle

AnalyzeSubstituted ==
    /\ ret.op = "analyze" /\ typed = 0
    /\ \E g \in Substitutions(input.content) : Analyze(g, input.options)
    /\ typed' = 1
    /\ UNCHANGED input

AnalyzeInserted ==
    /\ ret.op = "analyze" /\ typed = 0
    /\ \E g \in Insertions(input.content) : Analyze(g, input.options)
    /\ typed' = 2
    /\ UNCHANGED input

AnalyzeDeleted ==
    /\ ret.op = "analyze" /\ typed = 0
    /\ \E g \in Deletions(input.content) : Analyze(g, input.options)
    /\ typed' = 3
    /\ UNCHANGED input

NextEdit ==
    \/ AnalyzeInput
    \/ AnalyzeSubstituted
    \/ AnalyzeInserted
    \/ AnalyzeDeleted

SpecEdit == InitEdit /\ [][NextEdit]_vars

(***************************************************************************)
(* The calls of the history service.  A call occupies a place p of calls   *)
(* from its start to its return; before is the history at the moment of    *)
(* the call, seen the number of calls that had returned when the call read *)
(* the history it writes back.                                             *)
(***************************************************************************)

\* The sets of version numbers passed to deleteVersions.
VersionSets == (SUBSET (1..3)) \ {{}}

Null == [isNull |-> TRUE]

Return(p, result) ==
    /\ returned' = Append(returned,
           [op |-> calls[p].op, fileId |-> calls[p].fileId, args |-> calls[p].args,
            before |-> calls[p].before, seen |-> calls[p].seen, result |-> result])
    /\ calls' = [calls EXCEPT ![p] = IdleCall]

Call(p, op, fileId, args, pc) ==
    /\ calls[p] = IdleCall
    /\ started < MaxCalls
    /\ started' = started + 1
    /\ calls' = [calls EXCEPT ![p] =
           [pc |-> pc, op |-> op, fileId |-> fileId, args |-> args,
            before |-> getHistory(disk, fileId), seen |-> Len(returned)]]
    /\ UNCHANGED <<disk, returned, notHistory>>

\* addVersion(fileId, content, description) is called.
StartAddVersion(p) ==
    \E f \in FileIds, c \in Contents :
        Call(p, "addVersion", f,
             [content |-> c, description |-> "Manual checkpoint"], "addRead")

\* addVersion up to its await of writeFile: the history is read, the new
\* entry is made and pushed.
AddRead(p) ==
    /\ calls[p].pc = "addRead"
    /\ LET versions == getHistory(disk, calls[p].fileId)
           entry == newEntry(versions, calls[p].args.content, calls[p].args.description)
       IN  calls' = [calls EXCEPT ![p] =
               [@ EXCEPT !.pc = "addWrite", !.seen = Len(returned)]
                   @@ [versions |-> Append(versions, entry), entry |-> entry]]
    /\ UNCHANGED <<disk, started, returned, notHistory>>

\* writeFile takes effect and addVersion (and a restoreVersion that called
\* it) returns.
AddWrite(p) ==
    /\ calls[p].pc = "addWrite"
    /\ disk' = writeFile(disk, calls[p].fileId, calls[p].versions)
    /\ Return(p, IF calls[p].op = "addVersion" THEN calls[p].entry
                 ELSE [isNull |-> FALSE, content |-> calls[p].args.content,
                       newVersion |-> calls[p].entry])
    /\ UNCHANGED <<started, notHistory>>

\* restoreVersion(fileId, versionNumber) is called.
StartRestoreVersion(p) ==
    \E f \in FileIds, n \in 1..MaxCalls :
        Call(p, "restoreVersion", f, [versionNumber |-> n], "restoreFind")

\* restoreVersion after its await of getVersion: null when the version is
\* not there, else the call of addVersion.
RestoreFind(p) ==
    /\ calls[p].pc = "restoreFind"
    /\ LET versions == getHistory(disk, calls[p].fileId)
           n == calls[p].args.versionNumber
           k == FindVersion(versions, n)
       IN  IF k = 0
           THEN Return(p, Null)
           ELSE /\ calls' = [calls EXCEPT ![p] =
                       [@ EXCEPT !.pc = "addRead",
                                 !.args = [versionNumber |-> n,
                                           content |-> versions[k].content,
                                           description |-> RestoreDescription(n)]]]
                /\ UNCHANGED returned
    /\ UNCHANGED <<disk, started, notHistory>>

\* deleteVersions(fileId, versionNumbers) is called.
StartDeleteVersions(p) ==
    \E f \in FileIds, ns \in VersionSets :
        Call(p, "deleteVersions", f, [versionNumbers |-> ns], "deleteRead")

\* deleteVersions up to its await of writeFile.
DeleteRead(p) ==
    /\ calls[p].pc = "deleteRead"
    /\ calls' = [calls EXCEPT ![p] =
           [@ EXCEPT !.pc = "deleteWrite", !.seen = Len(returned)]
               @@ [versions |-> filteredVersions(getHistory(disk, calls[p].fileId),
                                                 calls[p].args.versionNumbers)]]
    /\ UNCHANGED <<disk, started, returned, notHistory>>

DeleteWrite(p) ==
    /\ calls[p].pc = "deleteWrite"
    /\ disk' = writeFile(disk, calls[p].fileId, calls[p].versions)
    /\ Return(p, TRUE)
    /\ UNCHANGED <<started, notHistory>>

\* deleteHistory(fileId) is called.
StartDeleteHistory(p) ==
    \E f \in FileIds : Call(p, "deleteHistory", f, [k \in {} |-> TRUE], "unlink")

\* unlink takes effect and deleteHistory returns.
DeleteHistory(p) ==
    /\ calls[p].pc = "unlink"
    /\ disk' = unlink(disk, calls[p].fileId)
    /\ Return(p, TRUE)
    /\ UNCHANGED <<started, notHistory>>

HistoryStep(p) ==
    \/ StartAddVersion(p)
    \/ AddRead(p)
    \/ AddWrite(p)
    \/ StartRestoreVersion(p)
    \/ RestoreFind(p)
    \/ StartDeleteVersions(p)
    \/ DeleteRead(p)
    \/ DeleteWrite(p)
    \/ StartDeleteHistory(p)
    \/ DeleteHistory(p)

\* The calls are made one after another: each is awaited before the next.
NextHistory == HistoryStep(1)

SpecHistory == Init /\ [][NextHistory]_vars

\* Two requests are handled at the same time: a call can start while
\* another is suspended at an await.
NextOverlap == \E p \in CallIds : HistoryStep(p)

SpecOverlap == Init /\ [][NextOverlap]_vars

(***************************************************************************)
(* The steps of the auto-save hook                                         *)
(***************************************************************************)

UserEvent ==
    /\ events < MaxEvents
    /\ events' = events + 1

\* The user changes the content: the effect on [content] sets
\* pendingContentRef.
Edit ==
    /\ UserEvent
    /\ \E c \in SaveContents \ {pendingContentRef} : pendingContentRef' = c
    /\ markedDirty' = FALSE
    /\ UNCHANGED <<status, lastSavedContentRef, timeoutRef, isSavingRef, fileIdRef,
                   throttleTimers, resetTimers, inFlight, notSave>>

\* markDirty(): the timer set before is cleared and a new one set.
MarkDirty ==
    /\ UserEvent
    /\ throttleTimers' = clearTimeout(throttleTimers, timeoutRef) \cup {events + 1}
    /\ timeoutRef' = events + 1
    /\ markedDirty' = TRUE
    /\ UNCHANGED <<status, lastSavedContentRef, pendingContentRef, isSavingRef,
                   fileIdRef, resetTimers, inFlight, notSave>>

\* The throttle timer fires: performSave().
ThrottleFires ==
    /\ \E t \in throttleTimers : throttleTimers' = throttleTimers \ {t}
    /\ performSave(FALSE)
    /\ UNCHANGED <<lastSavedContentRef, pendingContentRef, timeoutRef, fileIdRef,
                   resetTimers, events, markedDirty, notSave>>

\* saveNow()
SaveNow ==
    /\ UserEvent
    /\ throttleTimers' = clearTimeout(throttleTimers, timeoutRef)
    /\ timeoutRef' = 0
    /\ performSave(TRUE)
    /\ UNCHANGED <<lastSavedContentRef, pendingContentRef, fileIdRef, resetTimers,
                   markedDirty, notSave>>

\* The window loses the focus: handleBlur.
Blur ==
    /\ UserEvent
    /\ IF pendingContentRef # lastSavedContentRef
       THEN /\ throttleTimers' = clearTimeout(throttleTimers, timeoutRef)
            /\ timeoutRef' = 0
            /\ performSave(TRUE)
       ELSE UNCHANGED <<throttleTimers, timeoutRef, isSavingRef, status, inFlight>>
    /\ UNCHANGED <<lastSavedContentRef, pendingContentRef, fileIdRef, resetTimers,
                   markedDirty, notSave>>

\* Another file, or none, becomes the file of the editor, with its content:
\* the effects on [fileId] and [content].
SwitchFile ==
    /\ UserEvent
    /\ \E f \in FileTabs \ {fileIdRef}, c \in SaveContents :
           /\ fileIdRef' = f
           /\ pendingContentRef' = c
           /\ lastSavedContentRef' = c
    /\ status' = "idle"
    /\ throttleTimers' = clearTimeout(throttleTimers, timeoutRef)
    /\ timeoutRef' = 0
    /\ markedDirty' = FALSE
    /\ UNCHANGED <<isSavingRef, resetTimers, inFlight, notSave>>

\* An updateFile request succeeds: performSave after its await.
SaveSucceeds ==
    /\ \E k \in 1..Len(inFlight) :
           /\ inFlight' = DeleteAt(inFlight, k)
           /\ lastSavedContentRef' = inFlight[k].content
    /\ status' = "saved"
    /\ resetTimers' = resetTimers + 1
    /\ isSavingRef' = FALSE
    /\ UNCHANGED <<pendingContentRef, timeoutRef, fileIdRef, throttleTimers, events,
                   markedDirty, notSave>>

\* An updateFile request fails: the catch and finally of performSave.
SaveFails ==
    /\ \E k \in 1..Len(inFlight) : inFlight' = DeleteAt(inFlight, k)
    /\ status' = "error"
    /\ isSavingRef' = FALSE
    /\ UNCHANGED <<lastSavedContentRef, pendingContentRef, timeoutRef, fileIdRef,
                   throttleTimers, resetTimers, events, markedDirty, notSave>>

\* The timer set after a successful save fires: setStatus('idle').
ResetFires ==
    /\ resetTimers > 0
    /\ resetTimers' = resetTimers - 1
    /\ status' = "idle"
    /\ UNCHANGED <<lastSavedContentRef, pendingContentRef, timeoutRef, isSavingRef,
                   fileIdRef, throttleTimers, inFlight, events, markedDirty, notSave>>

NextSave ==
    \/ Edit
    \/ MarkDirty
    \/ ThrottleFires
    \/ SaveNow
    \/ Blur
    \/ SwitchFile
    \/ SaveSucceeds
    \/ SaveFails
    \/ ResetFires

SpecSave == Init /\ [][NextSave]_vars

\* The hook when every request succeeds; a timer that is set fires, and a
\* request that is in flight settles.
NextSaveLive ==
    \/ Edit
    \/ MarkDirty
    \/ ThrottleFires
    \/ SaveNow
    \/ Blur
    \/ SwitchFile
    \/ SaveSucceeds
    \/ ResetFires

SpecSaveLive ==
    /\ Init
    /\ [][NextSaveLive]_vars
    /\ WF_vars(ThrottleFires)
    /\ WF_vars(SaveSucceeds)
    /\ WF_vars(ResetFires)

(***************************************************************************)
(* The steps of the grammar-analysis hook                                  *)
(***************************************************************************)

\* The contents the editor passes to analyze: blank ones and grammars.
HookContents == {"", " \n", SessionContent(0), SessionContent(1)}

notHook == <<ticks, now, typed, input, historyVars, saveVars>>

\* performAnalysis(grammarContent), on the analyzer all hooks share.
performAnalysis(grammarContent) ==
    IF trim(grammarContent) = ""
    THEN /\ hookResult' = Null
         /\ UNCHANGED <<lastGrammarRef, cache, ret, first>>
    ELSE LET r == analyze(cache, now, grammarContent, EmptyOptions)
             call == CallRecord(grammarContent, EmptyOptions, r,
                                Keys(cache) \ Keys(r.cache))
         IN  /\ hookResult' = r.result
             /\ lastGrammarRef' = grammarContent
             /\ cache' = r.cache
             /\ ret' = call
             /\ first' = IF first.op = "none" THEN call ELSE first

HookCall ==
    /\ mounted
    /\ hookCalls < MaxHookCalls
    /\ hookCalls' = hookCalls + 1

\* analyze(grammarContent) of the hook.
HookAnalyze ==
    /\ HookCall
    /\ \E c \in HookContents :
           LET timers == IF debounceTimerRef # 0
                         THEN clearDebounce(debounceTimers, debounceTimerRef)
                         ELSE debounceTimers
           IN  /\ lastHookCall' =
                      [op |-> "analyze", content |-> c,
                       burst |-> IF lastHookCall.op = "analyze" /\ debounceTimers # {}
                                 THEN lastHookCall.burst + 1 ELSE 1]
               /\ IF c = lastGrammarRef /\ hookResult # Null
                  THEN /\ debounceTimers' = timers
                       /\ debounceTimerRef' = 0
                       /\ UNCHANGED <<hookResult, lastGrammarRef, cache, ret, first>>
                  ELSE IF debounceMs > 0
                  THEN /\ debounceTimers' = timers \cup {[id |-> hookCalls + 1, content |-> c]}
                       /\ debounceTimerRef' = hookCalls + 1
                       /\ UNCHANGED <<hookResult, lastGrammarRef, cache, ret, first>>
                  ELSE /\ debounceTimers' = timers
                       /\ debounceTimerRef' = 0
                       /\ performAnalysis(c)
    /\ UNCHANGED <<debounceMs, mounted, notHook>>

\* A debounce timer fires: performAnalysis(grammarContent).
DebounceFires ==
    /\ \E t \in debounceTimers :
           /\ debounceTimers' = debounceTimers \ {t}
           /\ performAnalysis(t.content)
    /\ UNCHANGED <<debounceTimerRef, debounceMs, mounted, hookCalls, lastHookCall,
                   notHook>>

\* clearAnalysis()
ClearAnalysis ==
    /\ HookCall
    /\ debounceTimers' = IF debounceTimerRef # 0
                         THEN clearDebounce(debounceTimers, debounceTimerRef)
                         ELSE debounceTimers
    /\ debounceTimerRef' = 0
    /\ hookResult' = Null
    /\ lastGrammarRef' = ""
    /\ lastHookCall' = [op |-> "clearAnalysis"]
    /\ UNCHANGED <<debounceMs, mounted, cache, ret, first, notHook>>

\* The component is unmounted: the cleanup of the effect.
Unmount ==
    /\ mounted
    /\ mounted' = FALSE
    /\ debounceTimers' = IF debounceTimerRef # 0
                         THEN clearDebounce(debounceTimers, debounceTimerRef)
                         ELSE debounceTimers
    /\ lastHookCall' = [op |-> "unmount"]
    /\ UNCHANGED <<hookResult, debounceTimerRef, lastGrammarRef, debounceMs, hookCalls,
                   cache, ret, first, notHook>>

InitHook ==
    /\ cache = <<>>
    /\ now = 0
    /\ ticks = 0
    /\ ret = NoCall
    /\ first = NoCall
    /\ typed = 0
    /\ input = NoInput
    /\ HistoryIdle
    /\ SaveIdle
    /\ \E ms \in {0, 500} : HookStart(ms)

NextHook ==
    \/ HookAnalyze
    \/ DebounceFires
    \/ ClearAnalysis
    \/ Unmount

SpecHook == InitHook /\ [][NextHook]_vars

(***************************************************************************)
(* Properties of analyze across calls on one analyzer                      *)
(***************************************************************************)

\* C1: whatever calls were made before, a call analyze(g, o) whose options
\* switch off detectUnusedRules returns an empty unusedRules array, and
\* likewise analyzeComplexity, detectPerformanceIssues and detectAmbiguity
\* switched off give an empty complexity, performanceIssues and
\* ambiguityHints array.
DisabledAnalysesReturnEmpty ==
    ret.op = "analyze" =>
        LET o == MergeOptions(ret.options)
            r == Report(ret.result)
        IN  /\ ~o.detectUnusedRules => r.unusedRules = <<>>
            /\ ~o.analyzeComplexity => r.complexity = <<>>
            /\ ~o.detectPerformanceIssues => r.performanceIssues = <<>>
            /\ ~o.detectAmbiguity => r.ambiguityHints = <<>>

\* C2: two calls analyze(g, o) with the same g and the same o return the
\* same grammarHash and equal rules, unusedRules, complexity,
\* performanceIssues and ambiguityHints, whatever calls were made between
\* them (the first call of the run and any later call are compared).
SameCallSameReport ==
    (/\ ret.op = "analyze"
     /\ first.op = "analyze"
     /\ ret.content = first.content
     /\ ret.options = first.options) =>
        LET r == Report(ret.result)
            f == Report(first.result)
        IN  /\ r.grammarHash = f.grammarHash
            /\ r.rules = f.rules
            /\ r.unusedRules = f.unusedRules
            /\ r.complexity = f.complexity
            /\ r.performanceIssues = f.performanceIssues
            /\ r.ambiguityHints = f.ambiguityHints

\* C3: the result of a call analyze(g, {startRule: s}) with a non-empty s
\* lists no rule named s (case-insensitively) in unusedRules, whatever
\* calls were made before.
StartRuleNeverUnused ==
    (ret.op = "analyze" /\ MergeOptions(ret.options).startRule # "") =>
        LET s == MergeOptions(ret.options).startRule
            unused == Report(ret.result).unusedRules
        IN  \A k \in 1..Len(unused) :
                toLowerCase(unused[k].name) # toLowerCase(s)

(***************************************************************************)
(* Properties of one analysis                                              *)
(***************************************************************************)

Names(seq) == [k \in 1..Len(seq) |-> seq[k].name]

StartRuleOf(options) == MergeOptions(options).startRule

\* The rule is the first rule of type parser in the rule list.
IsFirstParserRule(rules, k) ==
    /\ rules[k].type = "parser"
    /\ \A j \in 1..(k - 1) : rules[j].type # "parser"

\* What the claim C4 expects of the rule at position k.
ExpectedUnused(rules, k, startRule) ==
    /\ rules[k].referencedBy = <<>>
    /\ toLowerCase(rules[k].name) # toLowerCase(startRule)
    /\ ~(startRule = "" /\ IsFirstParserRule(rules, k))

RECURSIVE ExpectedUnusedNames(_, _, _)
ExpectedUnusedNames(rules, k, startRule) ==
    IF k > Len(rules) THEN <<>>
    ELSE (IF ExpectedUnused(rules, k, startRule) THEN <<rules[k].name>> ELSE <<>>)
             \o ExpectedUnusedNames(rules, k + 1, startRule)

RefsOf(graph, n) == IF n \in DOMAIN graph THEN Range(graph[n].references) ELSE {}

RefdByOf(graph, n) == IF n \in DOMAIN graph THEN Range(graph[n].referencedBy) ELSE {}

\* The declared rules reached from the set S by at most n references.
RECURSIVE ReachedFrom(_, _, _)
ReachedFrom(graph, S, n) ==
    IF n = 0 THEN S
    ELSE ReachedFrom(graph,
             S \cup { d \in DOMAIN graph : \E r \in S : d \in RefsOf(graph, r) },
             n - 1)

\* The rule lies on a reference cycle of length > 1 among declared rules: a
\* declared rule other than it, reachable from it, references it.
OnLongCycle(graph, n) ==
    \E d \in ReachedFrom(graph, {n}, Cardinality(DOMAIN graph)) :
        d # n /\ n \in RefsOf(graph, d)

\* C5: a rule is directly recursive iff its own reference set contains it,
\* and indirectly recursive iff it is not directly recursive and lies on a
\* reference cycle of length > 1 among declared rules; the two flags are
\* never both true, and undeclared names create no cycle.
RecursionCharacterised ==
    LET out == output
    IN  out.done =>
            \A k \in 1..Len(out.complexity) :
                LET m == out.complexity[k]
                    graph == out.referenceGraph
                IN  /\ m.directlyRecursive <=> m.name \in RefsOf(graph, m.name)
                    /\ m.indirectlyRecursive <=>
                           (~m.directlyRecursive /\ OnLongCycle(graph, m.name))
                    /\ ~(m.directlyRecursive /\ m.indirectlyRecursive)

\* a: b; b: c; c: a has been analysed: a, b and c are indirectly recursive
\* and none of them is directly recursive.
RecursionWitness ==
    /\ ret.op = "analyze"
    /\ input.content = GraphGrammar(<<"b">>, <<"c">>, <<"a">>)
    /\ LET out == output
       IN  /\ out.done
           /\ Len(out.complexity) = 3
           /\ \A k \in 1..3 : /\ out.complexity[k].indirectlyRecursive
                              /\ ~out.complexity[k].directlyRecursive

\* C6: for declared rules A and B, A is in B.referencedBy iff B is in
\* A.references; every name in a referencedBy set is a declared rule; an
\* undeclared name stays in the referencing rule's references and gets no
\* node; each rule's references and referencedBy arrays hold exactly the
\* elements of its node's sets.
GraphSymmetric ==
    LET out == output
        graph == out.referenceGraph
        rules == out.rules
        declared == Range(Names(rules))
    IN  out.done =>
            /\ DOMAIN graph = declared
            /\ \A A \in declared, B \in declared :
                   A \in RefdByOf(graph, B) <=> B \in RefsOf(graph, A)
            /\ \A B \in declared : RefdByOf(graph, B) \subseteq declared
            /\ \A k \in 1..Len(rules) :
                   /\ rules[k].references = graph[rules[k].name].references
                   /\ rules[k].referencedBy = graph[rules[k].name].referencedBy
                   /\ \A i, j \in 1..Len(rules[k].references) :
                          i # j => rules[k].references[i] # rules[k].references[j]
                   /\ \A i, j \in 1..Len(rules[k].referencedBy) :
                          i # j => rules[k].referencedBy[i] # rules[k].referencedBy[j]

\* A rule references a declared rule and the undeclared x: x is in its
\* references, and in no node.
GraphWitness ==
    /\ ret.op = "analyze"
    /\ input.content = GraphGrammar(<<"x", "b">>, <<>>, <<>>)
    /\ LET out == output
       IN  /\ out.done
           /\ \E k \in 1..Len(out.rules) :
                  /\ out.rules[k].name = "a"
                  /\ out.rules[k].references = <<"x", "b">>
           /\ \E k \in 1..Len(out.rules) :
                  /\ out.rules[k].name = "b"
                  /\ out.rules[k].referencedBy = <<"a">>
           /\ "x" \notin DOMAIN out.referenceGraph

\* The content has a line that declares the name with the fragment prefix.
DeclaredFragment(content, name) ==
    IndexOf(content, "\nfragment " \o name \o " :", 1) # 0

\* C10: summary.totalRules equals rules.length and the sum of parserRules,
\* lexerRules and fragmentRules; every rule has one of the three types; no
\* two rules share a name; a name declared with the fragment prefix is one
\* rule, of type fragment, and never a lexer rule.
RuleCountsConsistent ==
    LET out == output
        rules == out.rules
        sm == out.summary
    IN  out.done =>
            /\ sm.totalRules = Len(rules)
            /\ sm.totalRules = sm.parserRules + sm.lexerRules + sm.fragmentRules
            /\ \A k \in 1..Len(rules) : rules[k].type \in {"parser", "lexer", "fragment"}
            /\ \A i, j \in 1..Len(rules) : i # j => rules[i].name # rules[j].name
            /\ \A n \in {"A", "B", "F"} :
                   DeclaredFragment(input.content, n) =>
                       /\ Cardinality({k \in 1..Len(rules) : rules[k].name = n}) = 1
                       /\ \A k \in 1..Len(rules) :
                              rules[k].name = n => rules[k].type = "fragment"
            /\ \A k \in 1..Len(rules) :
                   rules[k].type = "lexer" => ~DeclaredFragment(input.content, rules[k].name)

\* F is declared as a lexer rule and, further down, with the fragment
\* prefix: the report has F once, as a fragment, before the parser rule.
RuleCountsWitness ==
    /\ ret.op = "analyze"
    /\ input.content
           = DeclGrammar(<<"F : 'f' ;", "fragment F : [a-z] ;", "a : 'k' ;">>)
    /\ LET out == output
       IN  /\ out.done
           /\ Names(out.rules) = <<"F", "a">>
           /\ out.rules[1].type = "fragment"
           /\ out.summary.totalRules = 2

(***************************************************************************)
(* Properties of the diagnostics of one analysis                           *)
(***************************************************************************)

\* The positions of the lexer rules (fragments included) whose references
\* hold the name.
LexerReferrers(rules, name) ==
    { j \in 1..Len(rules) :
        /\ rules[j].type \in {"lexer", "fragment"}
        /\ Has(rules[j].references, name) }

\* C11: a fragment that no lexer rule references is in unusedRules with the
\* type fragment, unless it is the start rule; a fragment that another
\* lexer rule references is not in unusedRules.
UnusedFragmentsReported ==
    LET out == output
        rules == out.rules
        unused == out.unusedRules
    IN  out.done =>
            \A k \in 1..Len(rules) :
                rules[k].type = "fragment" =>
                    LET name == rules[k].name
                        referrers == LexerReferrers(rules, name)
                    IN  /\ (referrers = {}
                              /\ toLowerCase(name) # toLowerCase(StartRuleOf(input.options)))
                             => \E j \in 1..Len(unused) :
                                    unused[j].name = name /\ unused[j].type = "fragment"
                        /\ (\E j \in referrers : rules[j].name # name)
                             => \A j \in 1..Len(unused) : unused[j].name # name

\* One character of a scan that follows string literals (from a quote that
\* no backslash precedes to the next such quote of the same kind) and the
\* nesting of parentheses, square brackets and braces, and counts the '|'
\* outside both.
TopLevelBarStep(st, s, i) ==
    LET char == At(s, i)
        quote == char \in {"\"", "'"} /\ At(s, i - 1) # "\\"
    IN  IF quote /\ ~st.inString THEN [st EXCEPT !.inString = TRUE, !.stringChar = char]
        ELSE IF quote /\ char = st.stringChar THEN [st EXCEPT !.inString = FALSE]
        ELSE IF st.inString THEN st
        ELSE IF char \in {"(", "[", "{"} THEN [st EXCEPT !.depth = @ + 1]
        ELSE IF char \in {")", "]", "}"} THEN [st EXCEPT !.depth = @ - 1]
        ELSE IF char = "|" /\ st.depth = 0 THEN [st EXCEPT !.bars = @ + 1]
        ELSE st

TopLevelBars(text) ==
    Fold(TopLevelBarStep,
         [bars |-> 0, depth |-> 0, inString |-> FALSE, stringChar |-> ""],
         text).bars

\* C12: the alternativeCount of every rule is 1 plus the number of '|' in
\* its text that are outside string literals and outside parentheses,
\* square brackets and braces.
AlternativeCountTopLevel ==
    LET out == output
    IN  out.done =>
            \A k \in 1..Len(out.rules) :
                out.rules[k].alternativeCount = 1 + TopLevelBars(out.rules[k].text)

\* The weighted sum of the claim C13 for one entry of complexity.
WeightedSum(m) ==
    m.depth * 5 + m.alternatives * 3 + m.referenceCount * 2 + m.lookahead * 4
        + (IF m.directlyRecursive THEN 15 ELSE 0)
        + (IF m.indirectlyRecursive THEN 25 ELSE 0)

\* C13: for every entry of complexity, complexityValue is the weighted sum
\* of its metrics, and score is critical from criticalComplexityThreshold
\* on, else high from highComplexityThreshold on, else medium from half of
\* highComplexityThreshold on, else low.
ComplexityScoreFormula ==
    LET out == output
        high == MergeOptions(input.options).highComplexityThreshold
        critical == MergeOptions(input.options).criticalComplexityThreshold
    IN  out.done =>
            \A k \in 1..Len(out.complexity) :
                LET m == out.complexity[k]
                    v == m.complexityValue
                IN  /\ v = WeightedSum(m)
                    /\ m.score \in {"critical", "high", "medium", "low"}
                    /\ m.score = "critical" <=> v >= critical
                    /\ m.score = "high" <=> (v < critical /\ v >= high)
                    /\ m.score = "medium" <=> (v < critical /\ v < high /\ 2 * v >= high)

\* The thresholds are inverted (high 30, critical 10): a rule is scored
\* critical with a value under the high threshold, another is scored low.
ComplexityScoreWitness ==
    /\ ret.op = "analyze"
    /\ MergeOptions(input.options).highComplexityThreshold = 30
    /\ MergeOptions(input.options).criticalComplexityThreshold = 10
    /\ LET out == output
       IN  /\ out.done
           /\ \E k \in 1..Len(out.complexity) :
                  /\ out.complexity[k].score = "critical"
                  /\ out.complexity[k].complexityValue < 30
           /\ \E k \in 1..Len(out.complexity) : out.complexity[k].score = "low"

\* The rule of the name in the rule list.
RuleNamed(rules, name) ==
    rules[CHOOSE k \in 1..Len(rules) : rules[k].name = name]

\* Two alternatives of the rule text have the same lower-cased first token.
DuplicatePrefix(text) ==
    LET alternatives == splitAlternatives(text)
    IN  \E i, j \in 1..Len(alternatives) :
            /\ i < j
            /\ toLowerCase(extractPrefix(alternatives[i]))
                   = toLowerCase(extractPrefix(alternatives[j]))

\* The estimate of the claim C14 before the clamp: 1, plus 2 for a
\* duplicated prefix, plus 1 for a '?' or '*', plus half the depth when
\* the depth is over 2.
LookaheadSum(text, depth) ==
    1 + (IF DuplicatePrefix(text) THEN 2 ELSE 0)
      + (IF \E i \in 1..Len(text) : At(text, i) \in {"?", "*"} THEN 1 ELSE 0)
      + (IF depth > 2 THEN depth \div 2 ELSE 0)

\* C14: the lookahead of every entry of complexity is the smaller of 10
\* and that sum for the rule's text and depth; it lies between 1 and 10,
\* and is not lower than the estimate without a duplicated prefix.
LookaheadFormula ==
    LET out == output
    IN  out.done =>
            \A k \in 1..Len(out.complexity) :
                LET m == out.complexity[k]
                    text == RuleNamed(out.rules, m.name).text
                    sum == LookaheadSum(text, m.depth)
                IN  /\ m.lookahead = (IF sum < 10 THEN sum ELSE 10)
                    /\ m.lookahead \in 1..10
                    /\ DuplicatePrefix(text) =>
                           m.lookahead >= (IF sum - 2 < 10 THEN sum - 2 ELSE 10)

\* A rule with a duplicated prefix and a depth of 16 has the lookahead 10,
\* the sum being 11.
LookaheadWitness ==
    /\ ret.op = "analyze"
    /\ input.content = RuleGrammar(<<"| | | |", "((((((((", "((((((((">>)
    /\ LET out == output
       IN  /\ out.done
           /\ \E k \in 1..Len(out.complexity) :
                  /\ out.complexity[k].name = "a"
                  /\ out.complexity[k].depth = 16
                  /\ out.complexity[k].lookahead = 10
                  /\ LookaheadSum(RuleNamed(out.rules, "a").text, 16) = 11

\* The number of performance issues of the rule with the severity and the
\* category.
IssueCount(issues, name, severity, category) ==
    Cardinality({ i \in 1..Len(issues) :
                    /\ issues[i].rule = name
                    /\ issues[i].severity = severity
                    /\ issues[i].category = category })

\* 1 when the condition holds, else 0.
OneIf(condition) == IF condition THEN 1 ELSE 0

\* C15: for every rule with metrics, each of the five checks emits its
\* issue exactly when its condition holds, whatever the other checks do,
\* and performanceIssues holds no other issue.
PerformanceChecksIndependent ==
    LET out == output
        issues == out.performanceIssues
    IN  out.done =>
            /\ \A k \in 1..Len(out.complexity) :
                   LET m == out.complexity[k]
                       n == m.name
                   IN  /\ IssueCount(issues, n, "warning", "backtracking")
                              = OneIf(m.alternatives > 5 /\ m.lookahead > 2)
                       /\ IssueCount(issues, n, "warning", "lookahead")
                              = OneIf(m.lookahead >= 4)
                       /\ IssueCount(issues, n, "info", "recursion")
                              = OneIf(m.indirectlyRecursive /\ m.depth > 3)
                       /\ IssueCount(issues, n, "info", "memory")
                              = OneIf(m.depth > 5)
                       /\ IssueCount(issues, n, "error", "backtracking")
                              = OneIf(m.score = "critical")
                       /\ Cardinality({ i \in 1..Len(issues) : issues[i].rule = n }) <= 5
            /\ \A i \in 1..Len(issues) :
                   /\ \E k \in 1..Len(out.complexity) :
                          /\ out.complexity[k].name = issues[i].rule
                          /\ out.complexity[k].type = issues[i].type
                   /\ <<issues[i].severity, issues[i].category>>
                          \in {<<"warning", "backtracking">>, <<"warning", "lookahead">>,
                               <<"info", "recursion">>, <<"info", "memory">>,
                               <<"error", "backtracking">>}

\* The rule a has 6 alternatives, the lookahead 7, the depth 8, an indirect
\* recursion through b and a critical score: it carries the five issues,
\* and the other rules none.
PerformanceChecksWitness ==
    /\ ret.op = "analyze"
    /\ input.content = RuleGrammar(<<"| | | |", "| b", "((((((((">>)
    /\ LET out == output
       IN  /\ out.done
           /\ Cardinality({ i \in 1..Len(out.performanceIssues) :
                               out.performanceIssues[i].rule = "a" }) = 5
           /\ Len(out.performanceIssues) = 5

\* The 0-based indices of the alternatives of the rule text whose
\* lower-cased first token is the prefix.
IndicesWithPrefix(text, prefix) ==
    LET alternatives == splitAlternatives(text)
    IN  { k - 1 : k \in { j \in 1..Len(alternatives) :
                            toLowerCase(extractPrefix(alternatives[j])) = prefix } }

\* The non-empty lower-cased prefixes that at least 2 alternatives of the
\* rule text share.
SharedPrefixes(text) ==
    LET alternatives == splitAlternatives(text)
    IN  { p \in { toLowerCase(extractPrefix(alternatives[k])) : k \in 1..Len(alternatives) } :
            p # "" /\ Cardinality(IndicesWithPrefix(text, p)) >= 2 }

\* C16: every ambiguity hint is for a parser rule with at least 2
\* alternatives; such a rule has exactly one hint per non-empty lower-cased
\* prefix that at least 2 of its alternatives share, whose
\* alternativeIndices are the 0-based indices of the alternatives with
\* that prefix, in ascending order; no hint groups alternatives with an
\* empty prefix.
AmbiguityHintsGrouped ==
    LET out == output
        hints == out.ambiguityHints
    IN  out.done =>
            /\ \A h \in 1..Len(hints) :
                   /\ \E k \in 1..Len(out.rules) :
                          /\ out.rules[k].name = hints[h].rule
                          /\ out.rules[k].type = "parser"
                          /\ Len(splitAlternatives(out.rules[k].text)) >= 2
                   /\ Len(hints[h].commonPrefix) = 1
                   /\ hints[h].commonPrefix[1] # ""
            /\ \A k \in 1..Len(out.rules) :
                   LET rule == out.rules[k]
                       mine == { h \in 1..Len(hints) : hints[h].rule = rule.name }
                   IN  IF rule.type = "parser"
                       THEN /\ Cardinality(mine) = Cardinality(SharedPrefixes(rule.text))
                            /\ \A p \in SharedPrefixes(rule.text) :
                                   \E h \in mine :
                                       LET indices == hints[h].alternativeIndices
                                       IN  /\ hints[h].commonPrefix = <<p>>
                                           /\ Range(indices) = IndicesWithPrefix(rule.text, p)
                                           /\ \A i, j \in 1..Len(indices) :
                                                  i < j => indices[i] < indices[j]
                       ELSE mine = {}

\* a : b | B x | | | | ; has been analysed: the one hint groups the
\* alternatives 0 and 1 under the prefix b, and the four alternatives
\* with an empty prefix are in no hint.
AmbiguityHintsWitness ==
    /\ ret.op = "analyze"
    /\ input.content = RuleGrammar(<<"b", "| B x", "| | | |">>)
    /\ LET out == output
       IN  /\ out.done
           /\ Len(out.ambiguityHints) = 1
           /\ out.ambiguityHints[1].rule = "a"
           /\ out.ambiguityHints[1].alternativeIndices = <<0, 1>>
           /\ out.ambiguityHints[1].commonPrefix = <<"b">>
           /\ Cardinality(IndicesWithPrefix(RuleNamed(out.rules, "a").text, "")) = 4

\* The number of performance issues of the severity.
SeverityCount(issues, severity) ==
    Cardinality({ i \in 1..Len(issues) : issues[i].severity = severity })

\* C17: in the summary, issuesBySeverity.warning is the number of
\* performance issues of severity warning plus the number of unused rules,
\* info the number of severity info plus the number of ambiguity hints,
\* error and critical the numbers of performance issues of these
\* severities; the four add up to the three lengths; highComplexityRules
\* is the number of complexity entries scored high or critical.
SummaryCountsIssues ==
    LET out == output
        by == out.summary.issuesBySeverity
        issues == out.performanceIssues
    IN  out.done =>
            /\ by.warning = SeverityCount(issues, "warning") + Len(out.unusedRules)
            /\ by.info = SeverityCount(issues, "info") + Len(out.ambiguityHints)
            /\ by.error = SeverityCount(issues, "error")
            /\ by.critical = SeverityCount(issues, "critical")
            /\ by.warning + by.info + by.error + by.critical
                   = Len(issues) + Len(out.unusedRules) + Len(out.ambiguityHints)
            /\ out.summary.highComplexityRules
                   = Cardinality({ k \in 1..Len(out.complexity) :
                                     out.complexity[k].score \in {"high", "critical"} })

\* a : b | b ( c | d )? ; has been analysed: one warning for the lookahead
\* and the unused rules F and X make 3 warnings, the hint for the prefix b
\* makes 1 info, and a is the one rule of high complexity.
SummaryCountsWitness ==
    /\ ret.op = "analyze"
    /\ input.content = RuleGrammar(<<"b", "| b", "( c | d )?">>)
    /\ input.options = EmptyOptions
    /\ LET out == output
       IN  /\ out.done
           /\ Len(out.performanceIssues) = 1
           /\ Len(out.unusedRules) = 2
           /\ Len(out.ambiguityHints) = 1
           /\ out.summary.issuesBySeverity
                  = [info |-> 1, warning |-> 3, error |-> 0, critical |-> 0]
           /\ out.summary.highComplexityRules = 1

\* C20: with analyzeComplexity enabled, complexity has one entry for each
\* rule of the rule list, the unused ones included, and no other, and its
\* complexityValues do not increase along the array.
ComplexityPerRuleSorted ==
    LET out == output
    IN  (out.done /\ MergeOptions(input.options).analyzeComplexity) =>
            /\ Len(out.complexity) = Len(out.rules)
            /\ \A k \in 1..Len(out.rules) :
                   Cardinality({ j \in 1..Len(out.complexity) :
                                   out.complexity[j].name = out.rules[k].name }) = 1
            /\ \A j \in 1..(Len(out.complexity) - 1) :
                   out.complexity[j].complexityValue
                       >= out.complexity[j + 1].complexityValue

\* The rule a, third but last in the rule list, is the first entry of
\* complexity, and the unused rule X has an entry behind it.
ComplexitySortedWitness ==
    /\ ret.op = "analyze"
    /\ input.content = RuleGrammar(<<"b", "| b", "( c | d )?">>)
    /\ input.options = EmptyOptions
    /\ LET out == output
       IN  /\ out.done
           /\ Names(out.rules) = <<"F", "X", "s", "a", "b">>
           /\ out.complexity[1].name = "a"
           /\ out.complexity[1].complexityValue > out.complexity[2].complexityValue
           /\ \E j \in 2..Len(out.complexity) : out.complexity[j].name = "X"
           /\ \E j \in 1..Len(out.unusedRules) : out.unusedRules[j].name = "X"

\* The issues of a sequence that have the severity sev, in their order.
WithSeverity(issues, sev) ==
    SelectSeq(issues, LAMBDA x : x.severity = sev)

\* C21: in the performanceIssues of a report no issue comes before one of
\* a more severe rank (critical, error, warning, info), and the issues of
\* one severity are in the order in which the loop over the rules emitted
\* them.
IssuesSortedBySeverity ==
    LET out == output
    IN  out.done =>
            LET issues == out.performanceIssues
                emitted == IssuesLoop(out.rules, out.complexity, 1, <<>>)
            IN  /\ \A i, j \in 1..Len(issues) :
                       i < j => severityOrder[issues[i].severity]
                                    <= severityOrder[issues[j].severity]
                /\ \A sev \in DOMAIN severityOrder :
                       WithSeverity(issues, sev) = WithSeverity(emitted, sev)

\* With the critical threshold 10 the rules X and a are both critical: the
\* two errors come first, X before a as in the rule list, and the warning
\* and the info of a, emitted before its error, come after.
IssuesSortedWitness ==
    /\ ret.op = "analyze"
    /\ input.content = RuleGrammar(<<"| | | |", "((((((((">>)
    /\ input.options = [highComplexityThreshold |-> 30, criticalComplexityThreshold |-> 10]
    /\ LET out == output
       IN  /\ out.done
           /\ [k \in 1..Len(out.performanceIssues) |->
                  <<out.performanceIssues[k].rule, out.performanceIssues[k].severity>>]
                = << <<"X", "error">>, <<"a", "error">>, <<"a", "warning">>,
                     <<"a", "info">> >>

(***************************************************************************)
(* Properties of analyze on arbitrary texts                                *)
(***************************************************************************)

\* The arrays of a report and its summary are all there, and the summary
\* counts the rules.
ReportComplete(out) ==
    /\ out.done
    /\ \A f \in {"rules", "unusedRules", "complexity", "performanceIssues",
                 "ambiguityHints"} : DOMAIN out[f] = 1..Len(out[f])
    /\ out.summary.totalRules = Len(out.rules)

\* C18: for every text, broken or not, analyze returns a complete report;
\* when the text has no rule definition (it has no colon, or it consists of
\* comments alone), the report has no rules and totalRules is 0.
AnalyzeTotal ==
    ret.op = "analyze" =>
        LET out == output
        IN  /\ ReportComplete(out)
            /\ HasNoRuleDefinition(input.content) =>
                   /\ out.rules = <<>>
                   /\ out.summary.totalRules = 0

\* The same for the texts without a colon alone.
AnalyzeTotalWithoutColon ==
    ret.op = "analyze" =>
        LET out == output
        IN  /\ ReportComplete(out)
            /\ ":" \notin CharsOf(input.content) =>
                   /\ out.rules = <<>>
                   /\ out.summary.totalRules = 0

(***************************************************************************)
(* Properties of the options                                               *)
(***************************************************************************)

\* The array of the report that each switch governs.
ArrayOf ==
    [detectUnusedRules |-> "unusedRules",
     analyzeComplexity |-> "complexity",
     detectPerformanceIssues |-> "performanceIssues",
     detectAmbiguity |-> "ambiguityHints"]

\* C25: on a new analyzer, a call with exactly one of the four switches set
\* to false returns that switch's array empty and the other three arrays
\* as a call with all four switches on returns them for the same grammar.
SwitchesIndependent ==
    \A n \in SwitchNames :
        (ret.op = "analyze" /\ DOMAIN input.options = {n}) =>
            LET out == output
                full == Pipeline(input.content, EmptyOptions)
            IN  /\ out[ArrayOf[n]] = <<>>
                /\ \A m \in SwitchNames \ {n} : out[ArrayOf[m]] = full[ArrayOf[m]]

\* The same, but for the performance issues when the complexity is off.
SwitchesIndependentButIssues ==
    \A n \in SwitchNames :
        (ret.op = "analyze" /\ DOMAIN input.options = {n}) =>
            LET out == output
                full == Pipeline(input.content, EmptyOptions)
            IN  /\ out[ArrayOf[n]] = <<>>
                /\ \A m \in SwitchNames \ {n} :
                       \/ out[ArrayOf[m]] = full[ArrayOf[m]]
                       \/ /\ n = "analyzeComplexity"
                          /\ m = "detectPerformanceIssues"
                          /\ out.performanceIssues = <<>>

(***************************************************************************)
(* Properties of the hash under an edit                                    *)
(***************************************************************************)

\* h * 31 + c modulo 2^32, read as a signed 32-bit integer; computed on the
\* two 16-bit halves of h so that no intermediate value leaves the integers
\* of the model checker.
PolyStep(h, c) ==
    LET low == (h % 65536) * 31 + c
        high == ((h \div 65536) * 31 + (low \div 65536)) % 65536
    IN  (IF high >= 32768 THEN high - 65536 ELSE high) * 65536 + (low % 65536)

PolyStepAt(h, s, i) == PolyStep(h, charCodeAt(s, i))

\* The base-16 digits of -n, for n <= 0.
RECURSIVE HexOfNegated(_)
HexOfNegated(n) ==
    LET r == (16 - (n % 16)) % 16
    IN  IF n > -16 THEN SubSeq(HexDigits, r + 1, r + 1)
        ELSE HexOfNegated((n + r) \div 16) \o SubSeq(HexDigits, r + 1, r + 1)

SignedHex(n) ==
    IF n <= 0 /\ n # 0 THEN "-" \o HexOfNegated(n) ELSE HexOfNegated(0 - n)

\* Hash values at which the shift or the sum overflows, and around them.
EdgeHashes ==
    {0, 1, -1, 2147483647, -2147483647 - 1, 67108863, 67108864, -67108864,
     -67108865, 134217727, 134217728, 69273666, -69273666, 1073741824,
     -1073741824, 65535, 65536, -65536}

EdgeChars == {"\t", " ", "0", "A", "z", "~"}

\* C28: the grammarHash of a report is the hash h := h * 31 + charCode
\* modulo 2^32 of the content, signed, from 0, in base 16 with a minus sign
\* when negative; and one step of the loop in its shift form agrees with
\* h * 31 + c for every h, at and beyond the overflow.
HashIsPolynomial ==
    /\ ret.op = "analyze" =>
           ret.result.grammarHash = SignedHex(Fold(PolyStepAt, 0, ret.content))
    /\ \A h \in EdgeHashes, c \in EdgeChars :
           HashStep(h, c, 1) = PolyStep(h, charCodeAt(c, 1))

\* A content whose hash has overflowed and is negative.
HashNegativeWitness ==
    /\ ret.op = "analyze"
    /\ ~ret.hit
    /\ Len(ret.content) > 20
    /\ SubSeq(ret.result.grammarHash, 1, 1) = "-"

\* A content whose hash has overflowed and is positive.
HashPositiveWitness ==
    /\ ret.op = "analyze"
    /\ ~ret.hit
    /\ Len(ret.content) > 20
    /\ SubSeq(ret.result.grammarHash, 1, 1) # "-"

\* C19: when a grammar has been analysed and one character of it is then
\* replaced, inserted or deleted, the analysis of the changed grammar has a
\* grammarHash different from the first one's and is not served from the
\* cache.
HashSensitive ==
    typed # 0 =>
        /\ ret.result.grammarHash # first.result.grammarHash
        /\ ~ret.hit

\* The same for a replaced character alone.
SubstitutionChangesHash ==
    typed = 1 =>
        /\ ret.result.grammarHash # first.result.grammarHash
        /\ ~ret.hit

(***************************************************************************)
(* Properties of the version history                                       *)
(***************************************************************************)

VersionNumbers(versions) ==
    [k \in 1..Len(versions) |-> versions[k].version]

\* The entry that a returned addVersion or restoreVersion call added, for a
\* call that added one.
Added(r) ==
    IF r.op = "addVersion" THEN r.result ELSE r.result.newVersion

AddedEntry(r) ==
    \/ r.op = "addVersion"
    \/ r.op = "restoreVersion" /\ r.result # Null

\* C22: with the calls made one after another, every entry that addVersion
\* adds has the version 1 when the history is empty and else the highest
\* version of the history plus 1, and the versions of the stored history
\* increase strictly along the list.
VersionsIncrease ==
    /\ \A i \in 1..Len(returned) :
           AddedEntry(returned[i]) =>
               Added(returned[i]).version =
                   IF returned[i].before = <<>> THEN 1
                   ELSE MaxVersion(returned[i].before) + 1
    /\ \A f \in FileIds :
           LET versions == getHistory(disk, f)
           IN  \A i, j \in 1..Len(versions) :
                   i < j => versions[i].version < versions[j].version

\* Version 1 of two has been deleted and a version added after that: the
\* history has one entry less than its highest version.
VersionsIncreaseWitness ==
    /\ returned # <<>>
    /\ returned[Len(returned)].op = "addVersion"
    /\ VersionNumbers(returned[Len(returned)].before) = <<2>>
    /\ VersionNumbers(getHistory(disk, "f1")) = <<2, 3>>

\* C23: with the calls made one after another, restoreVersion(file, n) for
\* a version n of the history leaves the entries of the history as they
\* are and appends one entry with the content of version n and the
\* description 'Restored from version n'; when the history has no version
\* n, or there is no history, it returns null and leaves the history as it
\* is.
RestoreAppendsOne ==
    (returned # <<>> /\ returned[Len(returned)].op = "restoreVersion") =>
        LET r == returned[Len(returned)]
            n == r.args.versionNumber
            k == FindVersion(r.before, n)
            versions == getHistory(disk, r.fileId)
        IN  IF k = 0
            THEN /\ r.result = Null
                 /\ versions = r.before
            ELSE /\ Len(versions) = Len(r.before) + 1
                 /\ SubSeq(versions, 1, Len(r.before)) = r.before
                 /\ versions[Len(versions)].content = r.before[k].content
                 /\ versions[Len(versions)].description
                        = "Restored from version " \o ToString(n)
                 /\ r.result.content = r.before[k].content
                 /\ r.result.newVersion = versions[Len(versions)]

\* Version 1 of a history of two versions with different contents has been
\* restored.
RestoreWitness ==
    /\ returned # <<>>
    /\ returned[Len(returned)].op = "restoreVersion"
    /\ returned[Len(returned)].args.versionNumber = 1
    /\ LET versions == getHistory(disk, "f1")
       IN  /\ VersionNumbers(versions) = <<1, 2, 3>>
           /\ versions[1].content # versions[2].content
           /\ versions[3].content = versions[1].content
           /\ versions[3].description = "Restored from version 1"

\* C29: when two calls that add an entry to the same file overlap, the one
\* that returns second having read the history before the first wrote it,
\* then both entries are in the stored history once the second has
\* returned, with different version numbers.
NoLostUpdate ==
    LET j == Len(returned)
    IN  (/\ j >= 2
         /\ AddedEntry(returned[j])
         /\ AddedEntry(returned[j - 1])
         /\ returned[j].fileId = returned[j - 1].fileId
         /\ returned[j].seen < j - 1) =>
            LET versions == getHistory(disk, returned[j].fileId)
                a == Added(returned[j - 1])
                b == Added(returned[j])
            IN  /\ a.version # b.version
                /\ \E k \in 1..Len(versions) : versions[k] = a
                /\ \E k \in 1..Len(versions) : versions[k] = b

(***************************************************************************)
(* Properties of the auto-save hook                                        *)
(***************************************************************************)

\* C24: the status is 'saving' whenever an updateFile request is in flight.
SavingWhileInFlight ==
    inFlight # <<>> => status = "saving"

\* C26: at most one updateFile request is in flight.
OneSaveInFlight ==
    Len(inFlight) <= 1

\* C30: when every request succeeds, a content that differs from the last
\* saved one and for which markDirty was called after the last edit is
\* saved in the end, unless a further user event comes first.
DirtyEventuallySaved ==
    \A n \in 0..MaxEvents :
        (/\ markedDirty
         /\ fileIdRef # ""
         /\ pendingContentRef # lastSavedContentRef
         /\ events = n)
            ~> (pendingContentRef = lastSavedContentRef \/ events # n)

(***************************************************************************)
(* Properties of the grammar-analysis hook                                 *)
(***************************************************************************)

\* C27: with a debounce delay, at most one analysis timer is pending; a
\* pending timer is the one the last call set, that call was an analyze
\* call, and the timer will analyse that call's content: so an earlier
\* call's content is not analysed once a later call has been made, and no
\* timer is pending after clearAnalysis or the unmounting.
OneTimerPending ==
    debounceMs > 0 =>
        /\ Cardinality(debounceTimers) <= 1
        /\ \A t \in debounceTimers :
               /\ lastHookCall.op = "analyze"
               /\ t.content = lastHookCall.content
               /\ t.id = debounceTimerRef

\* Three analyze calls have come each before the timer of the one before
\* fired, after an analysis: one timer is pending.
OneTimerWitness ==
    /\ debounceMs > 0
    /\ hookResult # Null
    /\ lastHookCall.op = "analyze"
    /\ lastHookCall.burst = 3
    /\ Cardinality(debounceTimers) = 1

(***************************************************************************)
(* Properties of the cache                                                 *)
(***************************************************************************)

\* C7: the cache holds at most 10 entries, each stored under the hash of
\* the grammar its report was computed for, and none after clearCache.
CacheBounded ==
    /\ Len(cache) <= 10
    /\ \A k \in 1..Len(cache) :
           /\ cache[k].hash = Hash(cache[k].result.content)
           /\ cache[k].result.grammarHash = cache[k].hash
    /\ \A i, j \in 1..Len(cache) : i # j => cache[i].hash # cache[j].hash
    /\ ret.op = "clearCache" => cache = <<>>

\* The last grammar of the session was stored in a full cache, which holds
\* 10 entries after the call.
CacheBoundedWitness ==
    /\ ret.op = "analyze"
    /\ ~ret.hit
    /\ typed = MaxTyped
    /\ ret.removed # {}
    /\ Len(cache) = 10

\* What C8 says of a step that is a call of analyze.
EvictionStep ==
    ret'.op = "analyze" =>
        LET h == Hash(ret'.content)
            k == CacheIndex(cache, h)
            entry == [result |-> ret'.result, hash |-> h, timestamp |-> now]
        IN  /\ ret'.hit => cache' = cache
            /\ k = 0 => /\ ~ret'.hit
                        /\ ret'.result = NewResult(ret'.content, ret'.options, now, h)
            /\ (k = 0 /\ Len(cache) = 10) =>
                   /\ cache' = Tail(cache) \o <<entry>>
                   /\ CacheIndex(cache', cache[1].hash) = 0
            /\ (k = 0 /\ Len(cache) < 10) => cache' = cache \o <<entry>>

\* C8: when a new report is stored in a cache of 10 entries, the one entry
\* removed is the one inserted earliest; a call served from the cache
\* leaves the cache as it is; a grammar that is not in the cache (any
\* more) is analysed anew.
EvictsEarliestInserted == [][EvictionStep]_vars

\* The 11th grammar of the session has been stored: the call removed the
\* entry of the first grammar, the earliest inserted.
EvictsEarliestWitness ==
    /\ ret.op = "analyze"
    /\ ~ret.hit
    /\ typed = 10
    /\ ret.removed = {Hash(SessionContent(0))}
    /\ first.content = SessionContent(0)
    /\ Len(cache) = 10
    /\ cache[1].hash = Hash(SessionContent(1))

\* What C9 says of a step that is a call of analyze for a grammar that has
\* a cache entry.
ExpiryStep ==
    ret'.op = "analyze" =>
        LET h == Hash(ret'.content)
            k == CacheIndex(cache, h)
            entry == [result |-> ret'.result, hash |-> h, timestamp |-> now]
        IN  k # 0 =>
                IF now - cache[k].timestamp > 5 * 60 * 1000
                THEN /\ ~ret'.hit
                     /\ ret'.result = NewResult(ret'.content, ret'.options, now, h)
                     /\ cache' = DeleteAt(cache, k) \o <<entry>>
                ELSE /\ ret'.hit
                     /\ ret'.result = cache[k].result
                     /\ cache' = cache

\* C9: an entry older than 5 minutes is not returned: it is removed, the
\* report is computed anew and stored with the current time as the newest
\* entry; an entry whose age is at most 5 minutes is returned, and the
\* cache is left as it is.
ExpiredEntriesRecomputed == [][ExpiryStep]_vars

\* The first grammar analysed, at time 0, is analysed again when its entry
\* is 5 minutes and 1 ms old: the call computes a new report and stores it
\* behind the entries of the two other grammars.
ExpiredEntriesWitness ==
    /\ ret.op = "analyze"
    /\ ~ret.hit
    /\ first.op = "analyze"
    /\ first.content = ret.content
    /\ first.result.timestamp = 0
    /\ now = 5 * 60 * 1000 + 1
    /\ ret.result.timestamp = now
    /\ Len(cache) = 3
    /\ cache[3].hash = Hash(ret.content)
    /\ cache[1].timestamp <= 1

=============================================================================
